---- MODULE Spec2Model ----
(***************************************************************************)
(* State-machine model of the real-time core of the bus tracker:           *)
(*   - core/consumers.py  LocationConsumer, ChatConsumer                   *)
(*   - core/views.py      update_location, switch_route                    *)
(*   - core/models.py     Bus, Driver, BusRoute, Message                   *)
(*   - core/admin.py      DriverAdmin (delete of a Driver row)             *)
(*                                                                         *)
(* Coordinates are integers counting steps of 0.0002 degree from (0, 0);   *)
(* so close to the equator the haversine distance is UnitCm centimetres    *)
(* times the euclidean length of the step difference.                      *)
(***************************************************************************)
EXTENDS Integers, Sequences, FiniteSets, TLC

\* ------------------------------------------------------------------ bounds
MaxLat == 3      \* latitudes 0..MaxLat
MaxSeq == 2      \* accepted updates per location session
MaxCounter == 2  \* eta_passed_counter values explored
MaxMessages == 2 \* Message rows
MaxOrder == 3    \* RouteStop.order values 1..MaxOrder

\* ------------------------------------------------------- values and tables
Null == -1          \* Python None / SQL NULL
NonNumeric == -2    \* a payload value float() raises on

Lats == 0..MaxLat
Lngs == {0, 1}

NoUser == 0                 \* scope["user"] anonymous
DriverUser == 1             \* the account owning Bus 1's Driver row
Users == {1, 2}
TheBus == 1
UrlBusIds == {TheBus}       \* bus_id of the websocket URL

LocUsers == {NoUser, 1, 2}  \* who opens location sockets and posts to the views

ChatUsers == {NoUser, 1, 2} \* who opens chat sockets

\* room_name of the chat websocket URL, and those that start with "user_"
Rooms == {"user_2_driver_1", "lobby"}
LegacyUserRooms == {"user_2_driver_1"}

LocChannels == {"L1", "L2"}
ChatChannels == {"K1", "K2"}
Channels == LocChannels \cup ChatChannels

MIN_MOVEMENT_METERS == 25
UnitCm == 2224              \* 6371000 m * radians(0.0002) in centimetres
AvgSpeedKmh == 25
AlphaPct == 30              \* alpha = 0.3
SmoothScale == 1            \* eta_smoothed_seconds is kept in whole 1/SmoothScale seconds

\* BusRoute rows 1 and 2 are each other's reverse_route.
Routes == {1, 2}
reverse_route(r) == IF r = 1 THEN 2 ELSE 1

\* get_stops_list(): the route's stops by RouteStop.order, as <<lat, lng>>.
get_stops_list(r) ==
    IF r = 1 THEN << <<1, 1>>, <<3, 1>> >> ELSE << <<3, 1>>, <<1, 1>> >>

\* ------------------------------------------------------------- pure helpers
Truthy(x) == x # Null /\ x # 0      \* Python truthiness of a float-or-None

\* floor(sqrt(n)), by bisection on [lo, hi)
RECURSIVE ISqrtBis(_, _, _)
ISqrtBis(n, lo, hi) ==
    IF hi - lo <= 1 THEN lo
    ELSE LET mid == (lo + hi) \div 2
         IN IF mid * mid <= n THEN ISqrtBis(n, mid, hi) ELSE ISqrtBis(n, lo, mid)

ISqrt(n) == ISqrtBis(n, 0, IF n < 46340 THEN n + 1 ELSE 46340)

D2(lat1, lng1, lat2, lng2) ==
    (lat2 - lat1) * (lat2 - lat1) + (lng2 - lng1) * (lng2 - lng1)

\* R * c of the haversine formula, in centimetres, by squared step distance
HaversineTable ==
    [d \in 0..((MaxLat + 1) * (MaxLat + 1) + 4) |-> ISqrt(d * UnitCm * UnitCm)]

\* haversine distance in centimetres
HaversineCm(lat1, lng1, lat2, lng2) == HaversineTable[D2(lat1, lng1, lat2, lng2)]

\* min(range(len(stops)), key=haversine(...)): the first index of least distance
NearestIdx(stops, lat, lng) ==
    LET d(i) == HaversineCm(lat, lng, stops[i][1], stops[i][2])
        best == CHOOSE i \in 1..Len(stops) :
                    /\ \A j \in 1..Len(stops) : d(i) <= d(j)
                    /\ \A j \in 1..(i - 1) : d(j) > d(i)
    IN best - 1

\* int((dist_km / avg_speed_kmh) * 3600), then max(1, .)
EtaSeconds(stops, idx, lat, lng) ==
    LET cm == HaversineCm(lat, lng, stops[idx + 1][1], stops[idx + 1][2])
        s == (cm * 3600) \div (AvgSpeedKmh * 100000)
    IN IF s < 1 THEN 1 ELSE s

\* (mutant) equal weights for the raw and the previous value
EmaEqualWeights(raw, prev) == (raw * SmoothScale + prev) \div 2

\* alpha * raw + (1 - alpha) * previous, in 1/SmoothScale seconds
Ema(raw, prev) ==
    (AlphaPct * raw * SmoothScale + (100 - AlphaPct) * prev) \div 100


\* ------------------------------------------------------------------- state
VARIABLES
    bus,            \* the Bus row 1: route and live fields
    driver,         \* the Driver row of DriverUser: mirrored lat/lng
    driverProfiles, \* ids of the users that have a Driver row
    busRows,        \* ids of the existing Bus rows
    loc,            \* LocationConsumer instances, by channel
    groups,         \* channel layer: set of <<group name, channel>>
    sent,           \* frames the last handler wrote to each websocket
    pubs,           \* group_send calls of the last handler: <<group, event>>
    actor,          \* the user (scope["user"], request.user) of the last handler
    pubLog,         \* per location session: what it has published since connect
    tracking,       \* the last tracking_status published on the bus's topic, where watched
    saving,         \* _save_bus_location calls between their two saves, by channel
    accepted,       \* per location session: _save_bus_location calls that returned True
    chat,           \* ChatConsumer instances, by channel
    messages,       \* the Message rows, oldest first
    resolvedBy,     \* how the last ChatConsumer.receive found its recipient
    routestops,     \* the RouteStop rows, by route
    buses,          \* route.buses.first() of each route: position and updated_at
    now,            \* timezone.now(), in minutes
    reply,          \* the answer of a search or tracking view, if that came last
    pickups,        \* the PickupRequest rows
    calls,          \* send_pickup_request calls in progress, by worker
    pickupReply     \* the JSON the last pickup view answered

vars == <<bus, driver, driverProfiles, busRows, loc, groups, sent, pubs, actor,
          pubLog, tracking, saving, accepted, chat, messages, resolvedBy, routestops, buses, now,
          reply, pickups, calls, pickupReply>>

chatVars == <<chat, messages, resolvedBy>>

\* what the specifications of the bus topic and of the two-step save watch
watchVars == <<tracking, saving>>

\* the tables the search and pickup views work on
searchVars == <<buses, now, reply>>

pickupVars == <<pickups, calls, pickupReply>>

queryVars == <<routestops, searchVars, pickupVars>>

\* everything the location and chat sockets work on
socketVars == <<bus, driver, driverProfiles, busRows, loc, groups, sent, pubs,
                actor, pubLog, watchVars, accepted, chatVars>>

NoSent == [c \in Channels |-> << >>]

\* ------------------------------------------------------------------ events
LocationUpdate(lat, lng, hist, seq) ==
    [type |-> "location_update", status |-> "", lat |-> lat, lng |-> lng,
     is_historical |-> hist, sequence |-> seq]

TrackingStatus(st) ==
    [type |-> "tracking_status", status |-> st, lat |-> Null, lng |-> Null,
     is_historical |-> FALSE, sequence |-> 0]

BusGroup(b) == "bus_" \o ToString(b)

Members(g) == {c \in Channels : <<g, c>> \in groups}

\* a channel name is new with each connection: it is in no group yet
Fresh(c) == \A p \in groups : p[2] # c

\* The output of a handler so far: frames written and group_send calls made.
NoOutput == [sent |-> NoSent, pubs |-> << >>]

\* self.send(text_data=...) on channel c
Send(o, c, ev) == [o EXCEPT !.sent[c] = Append(@, ev)]

\* channel_layer.group_send: every member's handler writes the event to its socket
GroupSend(o, g, ev) ==
    [sent |-> [c \in Channels |->
                 IF c \in Members(g) THEN Append(o.sent[c], ev) ELSE o.sent[c]],
     pubs |-> Append(o.pubs, <<g, ev>>)]

\* ------------------------------------------------- LocationConsumer helpers
\* _is_driver_for_bus(user_id, bus_id)
IsDriverForBus(u, b) ==
    /\ b \in busRows
    /\ DriverUser \in driverProfiles
    /\ DriverUser = u

\* connect: is_driver stays False for a user that is not authenticated
IsDriverAtConnect(u, b) == u # NoUser /\ IsDriverForBus(u, b)

\* _get_last_bus_location(bus_id): <<lat, lng>>, or << >> for None
GetLastBusLocation(b) ==
    IF b \notin busRows THEN << >>
    ELSE IF Truthy(bus.current_lat) /\ Truthy(bus.current_lng)
         THEN <<bus.current_lat, bus.current_lng>>
         ELSE << >>

\* the movement filter of _save_bus_location: TRUE when the fix is to be skipped
TooClose(b, lat, lng) ==
    /\ Truthy(b.current_lat) /\ Truthy(b.current_lng)
    /\ HaversineCm(b.current_lat, b.current_lng, lat, lng) < MIN_MOVEMENT_METERS * 100

\* nearest stop, raw ETA and smoothed ETA as _save_bus_location stores them
WithNearestAndEtaWs(b, lat, lng) ==
    LET stops == get_stops_list(b.route)
        idx == NearestIdx(stops, lat, lng)
        eta == EtaSeconds(stops, idx, lat, lng)
    IN [b EXCEPT !.nearest_stop_index = idx,
                 !.eta_seconds = eta,
                 !.eta_smoothed_seconds =
                     IF Truthy(b.eta_smoothed_seconds)
                     THEN Ema(eta, b.eta_smoothed_seconds)
                     ELSE eta * SmoothScale]

\* _save_bus_location(bus_id, lat, lng): what it returns and the rows it leaves
SaveBusLocation(b, lat, lng) ==
    IF lat = NonNumeric \/ lng = NonNumeric \/ b \notin busRows
       \/ TooClose(bus, lat, lng)
    THEN [saved |-> FALSE, bus |-> bus, driver |-> driver]
    ELSE [saved |-> TRUE,
          bus |-> WithNearestAndEtaWs(
                      [bus EXCEPT !.current_lat = lat, !.current_lng = lng],
                      lat, lng),
          driver |-> [current_lat |-> lat, current_lng |-> lng]]

\* (mutant) a clear that forgets the smoothed ETA
ClearedBusKeepsSmoothed(b) ==
    [b EXCEPT !.current_lat = Null, !.current_lng = Null,
              !.nearest_stop_index = Null, !.eta_seconds = Null]

\* (mutant) a clear that leaves the position on the Bus row
ClearedBusKeepsPosition(b) ==
    [b EXCEPT !.nearest_stop_index = Null, !.eta_seconds = Null,
              !.eta_smoothed_seconds = Null]

\* _clear_bus_location(bus_id): the Bus row after it
ClearedBus(b) ==
    [b EXCEPT !.current_lat = Null, !.current_lng = Null,
              !.nearest_stop_index = Null, !.eta_seconds = Null,
              !.eta_smoothed_seconds = Null]

ClearedDriver == [current_lat |-> Null, current_lng |-> Null]

Brief(ev) == [type |-> ev.type, status |-> ev.status, sequence |-> ev.sequence]

BriefAll(ps) == [i \in 1..Len(ps) |-> Brief(ps[i][2])]

\* no _save_bus_location call of the session is between its two saves
NotSaving ==
    [state |-> "idle", lat |-> Null, lng |-> Null, route |-> Null, smoothed |-> Null]

\* a websocket slot with no consumer on it
ClosedSession ==
    [state |-> "Closed", user |-> NoUser, bus_id |-> TheBus,
     is_driver |-> FALSE, sequence_number |-> 0]

\* ------------------------------------------------ LocationConsumer handlers
\* LocationConsumer.connect by user u on /ws/location/<b>/: the consumer it
\* leaves, the frames it writes and the groups afterwards
LocConnectResult(s, u, b) ==
    LET isd == IsDriverAtConnect(u, b)
        last == GetLastBusLocation(b)
        waiting == TrackingStatus("waiting")
    IN [session |-> [state |-> "Active", user |-> u, bus_id |-> b,
                     is_driver |-> isd, sequence_number |-> 0],
        groups |-> groups \cup {<<BusGroup(b), s>>},
        out |-> IF isd THEN NoOutput
                ELSE IF last # << >>
                     THEN Send(Send(NoOutput, s,
                                    LocationUpdate(last[1], last[2], TRUE, -1)),
                               s, waiting)
                     ELSE Send(NoOutput, s, waiting)]

LocConnect(s, u, b) ==
    /\ loc[s].state = "Closed"
    /\ Fresh(s)
    /\ LET r == LocConnectResult(s, u, b)
       IN /\ loc' = [loc EXCEPT ![s] = r.session]
          /\ groups' = r.groups
          /\ sent' = r.out.sent
          /\ pubs' = r.out.pubs
    /\ actor' = u
    /\ UNCHANGED <<bus, driver, driverProfiles, busRows, pubLog, watchVars, accepted, chatVars, queryVars>>

\* frames receive() does nothing with: text json.loads raises on, and JSON whose
\* type is not "location"
OtherFrames == {"not json", "ping"}

\* LocationConsumer.receive on such a frame: the rows, the counter and the output
LocReceiveOtherResult(s, text) ==
    [saved |-> FALSE, bus |-> bus, driver |-> driver,
     sequence_number |-> loc[s].sequence_number, out |-> NoOutput]

LocReceiveOther(s) ==
    /\ loc[s].state = "Active"
    /\ \E text \in OtherFrames :
           LET r == LocReceiveOtherResult(s, text)
           IN /\ bus' = r.bus
              /\ driver' = r.driver
              /\ loc' = [loc EXCEPT ![s].sequence_number = r.sequence_number]
              /\ sent' = r.out.sent
              /\ pubs' = r.out.pubs
    /\ actor' = loc[s].user
    /\ UNCHANGED <<driverProfiles, busRows, groups, pubLog, watchVars, accepted, chatVars, queryVars>>

\* the first group_send of receive: "connected" when this is update number 1
ConnectedFirst(o, g, seq) ==
    IF seq = 1 THEN GroupSend(o, g, TrackingStatus("connected")) ELSE o

\* (mutant) a sequence number spent on every event, saved or not
NextSequenceEveryEvent(seq, saved) == seq + 1

\* the sequence number receive gives an update, from what _save_bus_location returned
NextSequence(seq, saved) == IF saved THEN seq + 1 ELSE seq

\* (mutant) receive without the driver test
AcceptsLocationFromAnyone(s) == TRUE

\* whether receive hands the event to _save_bus_location
AcceptsLocationFrom(s) == loc[s].is_driver

\* the last tracking_status among the group_send calls ps, or before if none
LastStatus(ps, before) ==
    LET idx == {i \in 1..Len(ps) : ps[i][2].type = "tracking_status"}
    IN IF idx = {} THEN before
       ELSE ps[CHOOSE i \in idx : \A j \in idx : j <= i][2].status

\* LocationConsumer.receive of {"type": "location", "lat": fix[1], "lng": fix[2]}
LocReceiveResult(s, fix) ==
    LET lat == fix[1]
        lng == fix[2]
        g == BusGroup(loc[s].bus_id)
        handled == AcceptsLocationFrom(s) /\ lat # Null /\ lng # Null
        r == IF handled THEN SaveBusLocation(loc[s].bus_id, lat, lng)
             ELSE [saved |-> FALSE, bus |-> bus, driver |-> driver]
        seq == NextSequence(loc[s].sequence_number, r.saved)
    IN [saved |-> r.saved, bus |-> r.bus, driver |-> r.driver,
        sequence_number |-> seq,
        out |-> IF r.saved
                THEN GroupSend(ConnectedFirst(NoOutput, g, seq), g,
                               LocationUpdate(lat, lng, FALSE, seq))
                ELSE NoOutput]

LocReceiveStep(s, fix) ==
    /\ loc[s].state = "Active"
    /\ loc[s].sequence_number < MaxSeq
    /\ LET r == LocReceiveResult(s, fix)
       IN /\ bus' = r.bus
          /\ driver' = r.driver
          /\ loc' = [loc EXCEPT ![s].sequence_number = r.sequence_number]
          /\ sent' = r.out.sent
          /\ pubs' = r.out.pubs
          /\ pubLog' = [pubLog EXCEPT ![s] = @ \o BriefAll(r.out.pubs)]
          /\ accepted' = [accepted EXCEPT ![s] = IF r.saved THEN @ + 1 ELSE @]
    /\ actor' = loc[s].user
    /\ UNCHANGED <<driverProfiles, busRows, groups, chatVars, queryVars>>

\* the last tracking_status on the topic after the group_send calls ps
Watched(ps) == tracking' = LastStatus(ps, tracking) /\ UNCHANGED saving

LocReceive(s, fix) == LocReceiveStep(s, fix) /\ UNCHANGED watchVars

\* receive, with the topic watched
LocReceiveOnTopic(s, fix) ==
    LocReceiveStep(s, fix) /\ Watched(LocReceiveResult(s, fix).out.pubs)

\* (mutant) disconnect that clears whoever leaves
ClearsOnAnyDisconnect(s) == TRUE

\* whether disconnect clears the bus and announces it
ClearsOnDisconnect(s) == loc[s].is_driver

\* LocationConsumer.disconnect: the rows, the frames and the groups it leaves
LocDisconnectResult(s) ==
    LET g == BusGroup(loc[s].bus_id)
        clears == ClearsOnDisconnect(s)
        known == loc[s].bus_id \in busRows
    IN [bus |-> IF clears /\ known THEN ClearedBus(bus) ELSE bus,
        driver |-> IF clears /\ known THEN ClearedDriver ELSE driver,
        out |-> IF clears
                THEN GroupSend(NoOutput, g, TrackingStatus("disconnected"))
                ELSE NoOutput,
        groups |-> groups \ {<<g, s>>}]

LocDisconnectStep(s) ==
    /\ loc[s].state = "Active"
    /\ LET r == LocDisconnectResult(s)
       IN /\ bus' = r.bus
          /\ driver' = r.driver
          /\ sent' = r.out.sent
          /\ pubs' = r.out.pubs
          /\ groups' = r.groups
    /\ actor' = loc[s].user
    /\ loc' = [loc EXCEPT ![s] = ClosedSession]
    /\ pubLog' = [pubLog EXCEPT ![s] = << >>]
    /\ accepted' = [accepted EXCEPT ![s] = 0]
    /\ UNCHANGED <<driverProfiles, busRows, chatVars, queryVars>>

LocDisconnect(s) == LocDisconnectStep(s) /\ UNCHANGED watchVars

\* disconnect, with the topic watched
LocDisconnectOnTopic(s) ==
    LocDisconnectStep(s) /\ Watched(LocDisconnectResult(s).out.pubs)

\* LocationConsumer.disconnect of a driver session whose group_send raises:
\* the bus is cleared, the exception leaves disconnect before group_discard
LocDisconnectPublishFails(s) ==
    /\ loc[s].state = "Active"
    /\ loc[s].is_driver
    /\ LET r == LocDisconnectResult(s)
       IN /\ bus' = r.bus
          /\ driver' = r.driver
    /\ sent' = NoSent
    /\ pubs' = << >>
    /\ actor' = loc[s].user
    /\ loc' = [loc EXCEPT ![s] = ClosedSession]
    /\ pubLog' = [pubLog EXCEPT ![s] = << >>]
    /\ accepted' = [accepted EXCEPT ![s] = 0]
    /\ UNCHANGED <<driverProfiles, busRows, groups, watchVars, chatVars, queryVars>>

\* _save_bus_location up to its first save: the Bus row is read, the position
\* is saved and mirrored to the driver; the Bus object stays in memory
SaveFirst(s, fix) ==
    /\ loc[s].state = "Active"
    /\ saving[s].state = "idle"
    /\ loc[s].sequence_number < MaxSeq
    /\ LocReceiveResult(s, fix).saved
    /\ bus' = [bus EXCEPT !.current_lat = fix[1], !.current_lng = fix[2]]
    /\ driver' = [current_lat |-> fix[1], current_lng |-> fix[2]]
    /\ saving' = [saving EXCEPT ![s] =
                      [state |-> "position_saved", lat |-> fix[1], lng |-> fix[2],
                       route |-> bus.route, smoothed |-> bus.eta_smoothed_seconds]]
    /\ sent' = NoSent
    /\ pubs' = << >>
    /\ actor' = loc[s].user
    /\ UNCHANGED <<driverProfiles, busRows, loc, groups, pubLog, tracking, accepted,
                   chatVars, queryVars>>

\* the Bus row after the second save of _save_bus_location: nearest stop and
\* ETAs from the object in memory, written with update_fields
SecondSave(b, m) ==
    LET mem == [b EXCEPT !.route = m.route, !.eta_smoothed_seconds = m.smoothed]
        computed == WithNearestAndEtaWs(mem, m.lat, m.lng)
    IN [b EXCEPT !.nearest_stop_index = computed.nearest_stop_index,
                 !.eta_seconds = computed.eta_seconds,
                 !.eta_smoothed_seconds = computed.eta_smoothed_seconds]

\* the rest of _save_bus_location, and of receive after it
SaveSecond(s) ==
    /\ saving[s].state = "position_saved"
    /\ LET g == BusGroup(loc[s].bus_id)
           seq == NextSequence(loc[s].sequence_number, TRUE)
           out == GroupSend(ConnectedFirst(NoOutput, g, seq), g,
                            LocationUpdate(saving[s].lat, saving[s].lng, FALSE, seq))
       IN /\ bus' = SecondSave(bus, saving[s])
          /\ loc' = [loc EXCEPT ![s].sequence_number = seq]
          /\ sent' = out.sent
          /\ pubs' = out.pubs
          /\ pubLog' = [pubLog EXCEPT ![s] = @ \o BriefAll(out.pubs)]
          /\ accepted' = [accepted EXCEPT ![s] = @ + 1]
    /\ saving' = [saving EXCEPT ![s] = NotSaving]
    /\ actor' = loc[s].user
    /\ UNCHANGED <<driver, driverProfiles, busRows, groups, tracking, chatVars, queryVars>>

\* disconnect of a session: a consumer handles one event at a time, so none
\* of its own saves is under way
LocDisconnectIdle(s) == saving[s].state = "idle" /\ LocDisconnect(s)

\* --------------------------------------------------------------- HTTP views
\* the passed-stop counter of update_location
PassedCounter(b, idx) ==
    IF b.nearest_stop_index = Null THEN b.eta_passed_counter
    ELSE IF idx > b.nearest_stop_index THEN b.eta_passed_counter + 1
    ELSE IF idx < b.nearest_stop_index THEN 0
    ELSE b.eta_passed_counter

\* the Bus row update_location saves
UpdatedBusHttp(b, lat, lng) ==
    LET stops == get_stops_list(b.route)
        idx == NearestIdx(stops, lat, lng)
        eta == EtaSeconds(stops, idx, lat, lng)
    IN [b EXCEPT !.current_lat = lat, !.current_lng = lng,
                 !.nearest_stop_index = idx,
                 !.eta_seconds = eta,
                 !.eta_smoothed_seconds =
                     IF b.eta_smoothed_seconds = Null
                     THEN eta * SmoothScale
                     ELSE Ema(eta, b.eta_smoothed_seconds),
                 !.eta_passed_counter = PassedCounter(b, idx)]

\* whether update_location goes past its first test and parses the coordinates
UpdateLocationOk(u, fix) ==
    /\ u # NoUser /\ u \in driverProfiles
    /\ fix[1] \in Lats /\ fix[2] \in Lngs

\* views.update_location, POST by user u with form fields lat and lng: the rows it leaves
UpdateLocationResult(u, fix) ==
    LET ok == UpdateLocationOk(u, fix)
        mine == ok /\ u = DriverUser
    IN [bus |-> IF mine /\ TheBus \in busRows
                THEN UpdatedBusHttp(bus, fix[1], fix[2]) ELSE bus,
        driver |-> IF mine THEN [current_lat |-> fix[1], current_lng |-> fix[2]]
                   ELSE driver]

UpdateLocation(u, fix) ==
    /\ LET r == UpdateLocationResult(u, fix)
       IN /\ r.bus.eta_passed_counter <= MaxCounter
          /\ bus' = r.bus
          /\ driver' = r.driver
    /\ sent' = NoSent
    /\ pubs' = << >>
    /\ actor' = u
    /\ UNCHANGED <<driverProfiles, busRows, loc, groups, pubLog, watchVars, accepted, chatVars, queryVars>>

\* (mutant) a switch that keeps the passed-stop counter
SwitchedBusKeepsCounter(b) ==
    [b EXCEPT !.route = reverse_route(b.route),
              !.nearest_stop_index = Null,
              !.eta_seconds = Null,
              !.eta_smoothed_seconds = Null]

\* the Bus row switch_route saves
SwitchedBus(b) ==
    [b EXCEPT !.route = reverse_route(b.route),
              !.nearest_stop_index = Null,
              !.eta_seconds = Null,
              !.eta_smoothed_seconds = Null,
              !.eta_passed_counter = 0]

\* whether switch_route answers "success" to user u
SwitchRouteOk(u) ==
    /\ u # NoUser /\ u \in driverProfiles /\ u = DriverUser
    /\ TheBus \in busRows

\* views.switch_route, POST by user u: the Bus row it leaves
SwitchRouteResult(u) == IF SwitchRouteOk(u) THEN SwitchedBus(bus) ELSE bus

SwitchRoute(u) ==
    /\ bus' = SwitchRouteResult(u)
    /\ sent' = NoSent
    /\ pubs' = << >>
    /\ actor' = u
    /\ UNCHANGED <<driver, driverProfiles, busRows, loc, groups, pubLog, watchVars, accepted, chatVars, queryVars>>

\* ------------------------------------------------------------ ChatConsumer
UserTopic(u) == "user_" \o ToString(u)

DriverTopic(u) == "driver_" \o ToString(u)

ChatTopic(room) == "chat_" \o room

\* f"chat_user_{u}_driver_{d}"
LegacyRoom(u, d) == ChatTopic("user_" \o ToString(u) \o "_driver_" \o ToString(d))

\* str(self.room_name).startswith("user_")
StartsWithUser(room) == room \in LegacyUserRooms

\* Driver.objects.filter(user__id=uid).exists()
IsDriverAccount(u) == u \in driverProfiles

\* hasattr(user, "driver_profile")
HasDriverProfile(u) == u \in driverProfiles

\* a websocket slot with no chat consumer on it
ClosedChat == [state |-> "Closed", user |-> NoUser, room_name |-> ""]

\* the groups ChatConsumer.connect adds the channel to
ChatConnectGroups(c, u, room) ==
    (IF room # "" THEN {<<ChatTopic(room), c>>} ELSE {})
    \cup (IF u = NoUser THEN {}
          ELSE IF IsDriverAccount(u) THEN {<<DriverTopic(u), c>>}
          ELSE IF StartsWithUser(room) THEN {}
          ELSE {<<UserTopic(u), c>>})

\* ChatConsumer.connect by user u on /ws/chat/<room>/
ChatConnect(c, u, room) ==
    /\ chat[c].state = "Closed"
    /\ Fresh(c)
    /\ chat' = [chat EXCEPT ![c] = [state |-> "Open", user |-> u, room_name |-> room]]
    /\ groups' = groups \cup ChatConnectGroups(c, u, room)
    /\ sent' = NoSent
    /\ pubs' = << >>
    /\ actor' = u
    /\ resolvedBy' = "none"
    /\ UNCHANGED <<bus, driver, driverProfiles, busRows, loc, pubLog, watchVars, accepted, messages, queryVars>>

\* the groups ChatConsumer.disconnect discards the channel from
ChatDisconnectGroups(c) ==
    LET u == chat[c].user
        room == chat[c].room_name
    IN (IF room # "" THEN {<<ChatTopic(room), c>>} ELSE {})
       \cup (IF u = NoUser THEN {}
             ELSE IF HasDriverProfile(u) THEN {<<DriverTopic(u), c>>}
             ELSE {<<UserTopic(u), c>>})

\* ChatConsumer.disconnect
ChatDisconnect(c) ==
    /\ chat[c].state = "Open"
    /\ groups' = groups \ ChatDisconnectGroups(c)
    /\ chat' = [chat EXCEPT ![c] = ClosedChat]
    /\ sent' = NoSent
    /\ pubs' = << >>
    /\ actor' = chat[c].user
    /\ resolvedBy' = "none"
    /\ UNCHANGED <<bus, driver, driverProfiles, busRows, loc, pubLog, watchVars, accepted, messages, queryVars>>

\* the payload of a chat message, as published and as written to a socket
ChatMessage(s, r, content, bus_id) ==
    [type |-> "chat_message", sender_id |-> s, recipient_id |-> r,
     content |-> content, bus_id |-> bus_id]

\* a text frame on the chat socket
ChatFrame(type, content, recipient_id, bus_id) ==
    [type |-> type, content |-> content, recipient_id |-> recipient_id,
     bus_id |-> bus_id]

\* (mutant) a receive that never looks the bus up
ResolvedFromBusNever(sender, recipient_id, bus_id) == recipient_id

\* the bus lookup of receive taking the driver without finding the Bus row
ResolvedFromBusUnchecked(sender, recipient_id, bus_id) ==
    IF ~Truthy(recipient_id) /\ Truthy(bus_id) /\ ~IsDriverAccount(sender)
    THEN DriverUser
    ELSE recipient_id

\* receive, "resolve recipient from bus if not provided"; Bus.get raising on a
\* missing row leaves recipient_id None
ResolvedFromBus(sender, recipient_id, bus_id) ==
    IF ~Truthy(recipient_id) /\ Truthy(bus_id) /\ ~IsDriverAccount(sender)
    THEN IF bus_id \in busRows THEN DriverUser ELSE Null
    ELSE recipient_id

\* _get_last_user_to_driver without its exclude(sender__id=sid)
LastUserToDriverIncludingSelf(sid) ==
    LET rows == {i \in 1..Len(messages) : messages[i].recipient = sid}
    IN IF rows = {} THEN Null
       ELSE messages[CHOOSE i \in rows : \A j \in rows : j <= i].sender

\* _get_last_user_to_driver(sid): the sender of the newest row to sid from another user
LastUserToDriver(sid) ==
    LET rows == {i \in 1..Len(messages) :
                     messages[i].recipient = sid /\ messages[i].sender # sid}
    IN IF rows = {} THEN Null
       ELSE messages[CHOOSE i \in rows : \A j \in rows : j <= i].sender

\* receive, "if still no recipient and sender is a driver, try last contact"
ResolvedFromLastContact(sender, recipient_id) ==
    IF ~Truthy(recipient_id) /\ IsDriverAccount(sender)
       /\ Truthy(LastUserToDriver(sender))
    THEN LastUserToDriver(sender)
    ELSE recipient_id

\* _create_message(sender_id, recipient_id, bus_id, content): the rows after it
CreateMessage(s, r, bus_id) ==
    IF s \in Users /\ r \in Users
    THEN Append(messages,
                [sender |-> s, recipient |-> r,
                 bus |-> IF Truthy(bus_id) /\ bus_id \in busRows THEN bus_id ELSE Null])
    ELSE messages

\* receive, the forwards: user_{r}, chat_user_{r}_driver_{s}, and driver_{r} unless r is s
ForwardToRecipient(o, s, r, ev) ==
    LET o1 == GroupSend(o, UserTopic(r), ev)
        o2 == GroupSend(o1, LegacyRoom(r, s), ev)
    IN IF r # s THEN GroupSend(o2, DriverTopic(r), ev) ELSE o2

\* (mutant) an echo that uses the legacy room for a driver as well
EchoToSenderAlwaysLegacy(o, s, r, ev) ==
    GroupSend(GroupSend(o, IF IsDriverAccount(s) THEN DriverTopic(s) ELSE UserTopic(s), ev),
              LegacyRoom(s, r), ev)

\* receive, "echo back to sender"
EchoToSender(o, s, r, ev) ==
    IF IsDriverAccount(s)
    THEN GroupSend(o, DriverTopic(s), ev)
    ELSE GroupSend(GroupSend(o, UserTopic(s), ev), LegacyRoom(s, r), ev)

\* ChatConsumer.receive of frame f on channel c: the recipient it settles on,
\* the rows it leaves and what it publishes
ChatReceiveResult(c, f) ==
    LET s == chat[c].user
        r1 == ResolvedFromBus(s, f.recipient_id, f.bus_id)
        r == ResolvedFromLastContact(s, r1)
        by == IF r # r1 THEN "last_contact"
              ELSE IF r1 # f.recipient_id /\ Truthy(r1) THEN "bus"
              ELSE "given"
        ev == ChatMessage(s, r, f.content, f.bus_id)
    IN IF f.type # "chat_message" \/ s = NoUser \/ ~Truthy(r) \/ f.content = ""
       THEN [recipient |-> Null, by |-> "dropped", messages |-> messages,
             out |-> NoOutput]
       ELSE [recipient |-> r, by |-> by,
             messages |-> CreateMessage(s, r, f.bus_id),
             out |-> EchoToSender(ForwardToRecipient(NoOutput, s, r, ev), s, r, ev)]

ChatReceive(c, f) ==
    /\ chat[c].state = "Open"
    /\ LET r == ChatReceiveResult(c, f)
       IN /\ Len(r.messages) <= MaxMessages
          /\ messages' = r.messages
          /\ sent' = r.out.sent
          /\ pubs' = r.out.pubs
          /\ resolvedBy' = r.by
    /\ actor' = chat[c].user
    /\ UNCHANGED <<bus, driver, driverProfiles, busRows, loc, groups, pubLog, watchVars,
                   accepted, chat, queryVars>>

\* -------------------------------------------------------------------- admin
\* DriverAdmin, delete of the Driver row: its Bus rows go with it (CASCADE),
\* and so do the Message rows that name such a bus
AdminDeleteDriver ==
    /\ DriverUser \in driverProfiles
    /\ driverProfiles' = driverProfiles \ {DriverUser}
    /\ busRows' = {}
    /\ messages' = SelectSeq(messages, LAMBDA m : m.bus = Null)
    /\ sent' = NoSent
    /\ pubs' = << >>
    /\ actor' = NoUser
    /\ UNCHANGED <<bus, driver, loc, groups, pubLog, watchVars, accepted, chat, resolvedBy, queryVars>>

\* -------------------------------------------------------------- route graph
\* the Stop rows: id |-> <<latitude, longitude>>
StopIds == {1, 2, 3}
StopAt(id) == <<id, 1>>

\* RouteStop.distance_to_next_m as the admin may store it: unset, zero, a
\* distance, a negative number (the field has no validator)
StoredDistances == {Null, 0, 500, -500}

RouteStopRows ==
    [stop : StopIds, order : 1..MaxOrder, distance_to_next_m : StoredDistances]

RouteStopRow(stop, order, dist) ==
    [stop |-> stop, order |-> order, distance_to_next_m |-> dist]

\* route 1 runs 1, 2, 3 and route 2, its reverse_route, runs 3, 2, 1
InitialRouteStops ==
    [r \in Routes |->
        {RouteStopRow(s, IF r = 1 THEN s ELSE 4 - s, Null) : s \in StopIds}]

\* (mutant) an ordering that ignores the order column
OrderedByAny(rows) ==
    {q \in [1..Cardinality(rows) -> rows] :
        \A i, j \in 1..Cardinality(rows) : i # j => q[i] # q[j]}

\* routestop_set.order_by('order'): the sequences the query may return; rows
\* of equal order come in an order the database picks
OrderedBy(rows) ==
    {q \in [1..Cardinality(rows) -> rows] :
        /\ \A i, j \in 1..Cardinality(rows) : i # j => q[i] # q[j]
        /\ \A i, j \in 1..Cardinality(rows) : i < j => q[i].order <= q[j].order}

\* BusRoute._calculate_distance between two stops, in whole metres
CalculateDistance(a, b) ==
    HaversineCm(StopAt(a)[1], StopAt(a)[2], StopAt(b)[1], StopAt(b)[2]) \div 100

\* the weight get_stop_graph gives the edge out of row rs to row next_rs
EdgeDistance(rs, next_rs) ==
    IF rs.distance_to_next_m = Null \/ rs.distance_to_next_m = 0
    THEN CalculateDistance(rs.stop, next_rs.stop)
    ELSE rs.distance_to_next_m

\* (mutant) a graph that also links every stop back to the one before it
GetStopGraphBothWays(stops_list) ==
    [id \in {stops_list[i].stop : i \in 1..Len(stops_list)} |->
        LET i == CHOOSE k \in 1..Len(stops_list) : stops_list[k].stop = id
        IN (IF i < Len(stops_list)
            THEN << <<stops_list[i + 1].stop,
                      EdgeDistance(stops_list[i], stops_list[i + 1])>> >>
            ELSE << >>)
           \o (IF i > 1
               THEN << <<stops_list[i - 1].stop,
                         EdgeDistance(stops_list[i - 1], stops_list[i])>> >>
               ELSE << >>)]

\* BusRoute.get_stop_graph on the rows as the query returned them:
\* stop id |-> sequence of <<neighbour id, distance>>
GetStopGraph(stops_list) ==
    [id \in {stops_list[i].stop : i \in 1..Len(stops_list)} |->
        LET i == CHOOSE k \in 1..Len(stops_list) : stops_list[k].stop = id
        IN IF i < Len(stops_list)
           THEN << <<stops_list[i + 1].stop,
                     EdgeDistance(stops_list[i], stops_list[i + 1])>> >>
           ELSE << >>]

\* BusRoute.get_stops_list on the rows as the query returned them: the stop ids
StopIdsOf(stops_list) == [i \in 1..Len(stops_list) |-> stops_list[i].stop]

\* float('inf')
Infinity == 1000000

\* one round of Dijkstra: settle the nearest unsettled stop and relax its edges
RECURSIVE DijkstraLoop(_, _, _, _)
DijkstraLoop(graph, dist, prev, settled) ==
    LET open == {n \in DOMAIN graph : n \notin settled /\ dist[n] # Infinity}
    IN IF open = {} THEN [dist |-> dist, prev |-> prev]
       ELSE LET u == CHOOSE n \in open : \A m \in open : dist[n] <= dist[m]
                better == {k \in 1..Len(graph[u]) :
                              /\ graph[u][k][1] \in DOMAIN graph
                              /\ dist[u] + graph[u][k][2] < dist[graph[u][k][1]]}
                relaxed(n) == {k \in better : graph[u][k][1] = n}
                least(n) == CHOOSE k \in relaxed(n) :
                                \A l \in relaxed(n) : graph[u][k][2] <= graph[u][l][2]
            IN DijkstraLoop(
                   graph,
                   [n \in DOMAIN graph |->
                       IF relaxed(n) # {} THEN dist[u] + graph[u][least(n)][2]
                       ELSE dist[n]],
                   [n \in DOMAIN graph |-> IF relaxed(n) # {} THEN u ELSE prev[n]],
                   settled \cup {u})

\* the stops from start to n along prev
RECURSIVE PathTo(_, _, _)
PathTo(prev, start, n) ==
    IF n = start THEN <<start>> ELSE Append(PathTo(prev, start, prev[n]), n)

\* dsa.dijkstra(graph, start, end): <<distance, path>>; (Infinity, << >>) when
\* end is not reached, and for start = end, which is not short-circuited
Dijkstra(graph, start, end) ==
    IF start \notin DOMAIN graph \/ end \notin DOMAIN graph \/ start = end
    THEN <<Infinity, << >> >>
    ELSE LET r == DijkstraLoop(graph,
                               [n \in DOMAIN graph |-> IF n = start THEN 0 ELSE Infinity],
                               [n \in DOMAIN graph |-> Null],
                               {})
         IN IF r.dist[end] = Infinity THEN <<Infinity, << >> >>
            ELSE <<r.dist[end], PathTo(r.prev, start, end)>>

\* BusRouteAdmin with RouteStopInline: a row is added, or the row of that stop
\* is changed (a route has one row per stop)
AdminSaveRouteStop(r, row) ==
    /\ routestops' = [routestops EXCEPT
                         ![r] = {x \in @ : x.stop # row.stop} \cup {row}]
    /\ UNCHANGED <<socketVars, pickupVars, searchVars>>

\* BusRouteAdmin with RouteStopInline: a row is deleted
AdminDeleteRouteStop(r, stop) ==
    /\ \E x \in routestops[r] : x.stop = stop
    /\ routestops' = [routestops EXCEPT ![r] = {x \in @ : x.stop # stop}]
    /\ UNCHANGED <<socketVars, pickupVars, searchVars>>

\* ------------------------------------------------------------ search views
MaxNow == 7                 \* minutes the clock runs

StaleMinutes == 5
STOP_DELAY_SECONDS == 60
NoEtaKey == 9999

\* a Bus row no driver has reported a position for
NotTracked == [current_lat |-> Null, current_lng |-> Null, updated_at |-> 0]

NoReply == [view |-> "none", buses_info |-> << >>, eta |-> Null]

\* where the driver of a bus reports it to be
BusPositions == {<<0, 1>>, <<1, 1>>, <<MaxLat, 1>>}

\* _save_bus_location: position and updated_at, unless the movement filter drops it
DriverReports(r, pos) ==
    /\ ~TooClose(buses[r], pos[1], pos[2])
    /\ buses' = [buses EXCEPT ![r] = [current_lat |-> pos[1],
                                      current_lng |-> pos[2],
                                      updated_at |-> now]]
    /\ reply' = NoReply
    /\ UNCHANGED <<socketVars, pickupVars, routestops, now>>

\* _clear_bus_location: the position goes, updated_at stays
DriverStops(r) ==
    /\ buses[r].current_lat # Null
    /\ buses' = [buses EXCEPT ![r].current_lat = Null, ![r].current_lng = Null]
    /\ reply' = NoReply
    /\ UNCHANGED <<socketVars, pickupVars, routestops, now>>

\* a minute passes
Tick ==
    /\ now < MaxNow
    /\ now' = now + 1
    /\ reply' = NoReply
    /\ UNCHANGED <<socketVars, pickupVars, routestops, buses>>

\* latitude and longitude of the stops of a stops list
StopCoords(q) == [i \in 1..Len(q) |-> StopAt(q[i].stop)]

Contains(ids, x) == \E i \in 1..Len(ids) : ids[i] = x

\* list.index(x), counted from 1
IndexOf(ids, x) ==
    CHOOSE i \in 1..Len(ids) : ids[i] = x /\ \A j \in 1..(i - 1) : ids[j] # x

\* routing_api.get_road_distance_with_fallback, in centimetres
RoadDistanceCm(lat1, lng1, lat2, lng2) == HaversineCm(lat1, lng1, lat2, lng2)

\* homepage: is_stale
IsStale(b) == b.updated_at # Null /\ now - b.updated_at > StaleMinutes

\* max(1, int(travel_time_minutes + total_stop_delay_minutes))
EtaMinutes(total_cm, stops_between) ==
    LET m == (total_cm * 60) \div (AvgSpeedKmh * 100000)
             + (stops_between * STOP_DELAY_SECONDS) \div 60
    IN IF m < 1 THEN 1 ELSE m

\* (mutant) every boundary one minute early
ClassifyEarly(eta) ==
    IF eta < 2 THEN [eta |-> eta, status |-> "arriving_soon"]
    ELSE IF eta < 10 THEN [eta |-> eta, status |-> "catchable"]
    ELSE IF eta < 30 THEN [eta |-> eta, status |-> "far"]
    ELSE [eta |-> Null, status |-> "no_route"]

\* homepage: the status of an ETA, and the ETA that is kept
Classify(eta) ==
    IF eta <= 2 THEN [eta |-> eta, status |-> "arriving_soon"]
    ELSE IF eta <= 10 THEN [eta |-> eta, status |-> "catchable"]
    ELSE IF eta <= 30 THEN [eta |-> eta, status |-> "far"]
    ELSE [eta |-> Null, status |-> "no_route"]

\* eta and status as the entry gets them; minutes is the ETA before the test
Appended(minutes) ==
    [kept |-> TRUE, minutes |-> minutes, eta |-> Classify(minutes).eta,
     status |-> Classify(minutes).status]

\* homepage, the ETA of bus row b for the pickup at pickup_idx of stops list q1,
\* with the graph built from q2; kept is FALSE where the loop continues past
\* the append
EtaAndStatus(b, q1, q2, pickup_idx) ==
    LET graph == GetStopGraph(q2)
        nearest_stop_idx == NearestIdx(StopCoords(q1), b.current_lat, b.current_lng) + 1
        nearest_stop_id == q1[nearest_stop_idx].stop
        pickup_stop_id == q1[pickup_idx].stop
        dist_to_nearest == RoadDistanceCm(b.current_lat, b.current_lng,
                                          StopAt(nearest_stop_id)[1],
                                          StopAt(nearest_stop_id)[2])
        dist_along_route_meters == Dijkstra(graph, nearest_stop_id, pickup_stop_id)[1]
    IN IF DOMAIN graph = {}
       THEN [kept |-> TRUE, minutes |-> Null, eta |-> Null, status |-> "error"]
       ELSE IF nearest_stop_idx > pickup_idx
       THEN [kept |-> TRUE, minutes |-> Null, eta |-> Null, status |-> "passed"]
       ELSE IF nearest_stop_id = pickup_stop_id
       THEN Appended(EtaMinutes(dist_to_nearest, 0))
       ELSE IF dist_along_route_meters # Infinity /\ dist_along_route_meters >= 0
       THEN Appended(EtaMinutes(dist_to_nearest + dist_along_route_meters * 100,
                                pickup_idx - nearest_stop_idx))
       ELSE [kept |-> FALSE, minutes |-> Null, eta |-> Null, status |-> "no_route"]

\* homepage: pickup_to_dest_distance, in metres, with the graph built from q3
PickupToDestDistance(q1, q3, pickup_idx, dest_idx) ==
    LET distance_meters ==
            Dijkstra(GetStopGraph(q3), q1[pickup_idx].stop, q1[dest_idx].stop)[1]
    IN IF distance_meters # Infinity /\ distance_meters > 0
       THEN distance_meters ELSE Null

\* homepage: the route is among matching_routes
Matches(q1, pickup_id, destination_id) ==
    /\ Contains(StopIdsOf(q1), pickup_id)
    /\ Contains(StopIdsOf(q1), destination_id)
    /\ IndexOf(StopIdsOf(q1), pickup_id) < IndexOf(StopIdsOf(q1), destination_id)

InfoEntry(r, eta, status, dist) ==
    [route |-> r, eta |-> eta, status |-> status, pickup_to_dest_distance |-> dist]

\* homepage: what route r adds to buses_info, its three queries having
\* returned the rows in the orders qs[1], qs[2], qs[3]
RouteEntries(r, qs, pickup_id, destination_id) ==
    IF ~Matches(qs[1], pickup_id, destination_id) THEN << >>
    ELSE LET pickup_idx == IndexOf(StopIdsOf(qs[1]), pickup_id)
             dest_idx == IndexOf(StopIdsOf(qs[1]), destination_id)
             b == buses[r]
         IN IF b.current_lat = Null \/ b.current_lng = Null \/ IsStale(b)
            THEN << InfoEntry(r, Null, "no_location", Null) >>
            ELSE LET e == EtaAndStatus(b, qs[1], qs[2], pickup_idx)
                 IN IF ~e.kept THEN << >>
                    ELSE << InfoEntry(r, e.eta, e.status,
                                PickupToDestDistance(qs[1], qs[3], pickup_idx, dest_idx)) >>

\* (mutant) a sort key that puts the ETA first
SortKeyEtaFirst(x) ==
    <<IF x.eta = Null THEN 1 ELSE 0,
      IF Truthy(x.eta) THEN x.eta ELSE NoEtaKey,
      IF x.pickup_to_dest_distance = Null THEN 1 ELSE 0,
      IF Truthy(x.pickup_to_dest_distance) THEN x.pickup_to_dest_distance ELSE Infinity>>

\* homepage: the key buses_info is sorted by
SortKey(x) ==
    <<IF x.pickup_to_dest_distance = Null THEN 1 ELSE 0,
      IF Truthy(x.pickup_to_dest_distance) THEN x.pickup_to_dest_distance ELSE Infinity,
      IF x.eta = Null THEN 1 ELSE 0,
      IF Truthy(x.eta) THEN x.eta ELSE NoEtaKey>>

\* tuple comparison
KeyLess(a, b) ==
    \E i \in 1..Len(a) : a[i] < b[i] /\ \A j \in 1..(i - 1) : a[j] = b[j]

\* list.sort(key=...): stable
RECURSIVE SortedInfo(_)
SortedInfo(info) ==
    IF info = << >> THEN << >>
    ELSE LET front == SortedInfo(SubSeq(info, 1, Len(info) - 1))
             x == info[Len(info)]
             n == Cardinality({i \in 1..Len(front) :
                                   ~KeyLess(SortKey(x), SortKey(front[i]))})
         IN SubSeq(front, 1, n) \o <<x>> \o SubSeq(front, n + 1, Len(front))

\* the orders in which the three order_by('order') queries of one route may
\* return its rows
TieOrders(r) ==
    OrderedBy(routestops[r]) \X OrderedBy(routestops[r]) \X OrderedBy(routestops[r])

AllTieOrders == {<<a, b>> : a \in TieOrders(1), b \in TieOrders(2)}

\* homepage with ?pickup=&destination=&show_passed=: buses_info
HomepageResult(pickup_id, destination_id, show_passed, ties) ==
    LET info == RouteEntries(1, ties[1], pickup_id, destination_id)
                \o RouteEntries(2, ties[2], pickup_id, destination_id)
        NotPassed(x) == x.status # "passed"
    IN IF show_passed THEN SortedInfo(info)
       ELSE SelectSeq(SortedInfo(info), NotPassed)

Homepage(pickup_id, destination_id, show_passed) ==
    /\ \E ties \in AllTieOrders :
           reply' = [view |-> "homepage",
                     buses_info |-> HomepageResult(pickup_id, destination_id,
                                                   show_passed, ties),
                     eta |-> Null]
    /\ UNCHANGED <<socketVars, pickupVars, routestops, buses, now>>

\* track_bus: the distance along the stops from index i on to index target,
\* going round past the last stop
RECURSIVE WalkCm(_, _, _)
WalkCm(stops, i, target) ==
    IF i = target THEN 0
    ELSE LET j == (i % Len(stops)) + 1
         IN HaversineCm(stops[i][1], stops[i][2], stops[j][1], stops[j][2])
            + WalkCm(stops, j, target)

\* track_bus with ?pickup=: the eta of the page; default_pickup is a stop id or Null
TrackBusEta(r, default_pickup, q) ==
    LET b == buses[r]
        stops == StopCoords(q)
        ids == StopIdsOf(q)
        nearest_idx == NearestIdx(stops, b.current_lat, b.current_lng) + 1
        distance_cm ==
            IF Contains(ids, default_pickup)
            THEN HaversineCm(b.current_lat, b.current_lng,
                             stops[nearest_idx][1], stops[nearest_idx][2])
                 + WalkCm(stops, nearest_idx, IndexOf(ids, default_pickup))
            ELSE HaversineCm(b.current_lat, b.current_lng,
                             StopAt(default_pickup)[1], StopAt(default_pickup)[2])
    IN IF default_pickup = Null \/ b.current_lat = Null \/ b.current_lng = Null
       THEN Null
       ELSE EtaMinutes(distance_cm, 0)

TrackBus(r, default_pickup) ==
    /\ \E q \in OrderedBy(routestops[r]) :
           reply' = [view |-> "track_bus", buses_info |-> << >>,
                     eta |-> TrackBusEta(r, default_pickup, q)]
    /\ UNCHANGED <<socketVars, pickupVars, routestops, buses, now>>

\* ------------------------------------------------------------- pickup views
WindowMinutes == 60         \* timedelta(hours=1)

\* the fields of PickupRequest, as models.py declares them
PickupRequestFields ==
    {"id", "user", "bus", "stop", "message", "status", "created_at", "seen_by_driver"}

\* the keyword arguments send_pickup_request hands to PickupRequest.objects.create
CreateKwargs == {"user", "bus", "stop", "stop_obj", "message"}

\* Model.__init__ raises TypeError on a keyword that is no field of the model
CreateAccepted == CreateKwargs \subseteq PickupRequestFields

\* the server workers that run requests side by side
Workers == {"W1", "W2"}

Idle == [state |-> "idle", user |-> NoUser, bus |-> TheBus]

NoPickupReply == [status |-> "none", existing_request_id |-> Null, pickup_id |-> Null]

PickupRow(id, u, b, st, t) ==
    [id |-> id, user |-> u, bus |-> b, status |-> st, created_at |-> t,
     seen_by_driver |-> FALSE]

\* (mutant) a view without the duplicate test
NoExistingRequests(u, b) == {}

\* send_pickup_request: the rows its filter finds
ExistingRequests(u, b) ==
    {x \in pickups : /\ x.user = u /\ x.bus = b
                     /\ x.created_at >= now - WindowMinutes
                     /\ x.status = "pending"}

\* .first(): the row of the lowest id
FirstRow(rows) == CHOOSE x \in rows : \A y \in rows : x.id <= y.id

\* send_pickup_request up to the duplicate test: the reply, or "go on"
CheckResult(u, b) ==
    IF b \notin busRows
    THEN [go_on |-> FALSE,
          reply |-> [status |-> "error", existing_request_id |-> Null, pickup_id |-> Null]]
    ELSE IF ExistingRequests(u, b) # {}
    THEN [go_on |-> FALSE,
          reply |-> [status |-> "error",
                     existing_request_id |-> FirstRow(ExistingRequests(u, b)).id,
                     pickup_id |-> Null]]
    ELSE [go_on |-> TRUE, reply |-> NoPickupReply]

PickupNotification(id, u, b) ==
    [type |-> "pickup_notification", pickup_id |-> id, user_id |-> u, bus_id |-> b]

NextPickupId == Cardinality(pickups) + 1

\* send_pickup_request from PickupRequest.objects.create on: rows, group_send
\* calls and reply
CreateResult(u, b) ==
    IF CreateAccepted
    THEN [pickups |-> pickups \cup {PickupRow(NextPickupId, u, b, "pending", now)},
          pubs |-> << <<DriverTopic(DriverUser), PickupNotification(NextPickupId, u, b)>> >>,
          reply |-> [status |-> "success", existing_request_id |-> Null,
                     pickup_id |-> NextPickupId]]
    ELSE [pickups |-> pickups, pubs |-> << >>,
          reply |-> [status |-> "error", existing_request_id |-> Null, pickup_id |-> Null]]

\* send_pickup_request run without another request in between
SendPickupResult(u, b) ==
    IF CheckResult(u, b).go_on THEN CreateResult(u, b)
    ELSE [pickups |-> pickups, pubs |-> << >>, reply |-> CheckResult(u, b).reply]

\* worker w takes a POST of user u for bus b and runs it up to the duplicate test
SendPickupCheck(w, u, b) ==
    /\ calls[w].state = "idle"
    /\ LET r == CheckResult(u, b)
       IN IF r.go_on
          THEN /\ calls' = [calls EXCEPT ![w] = [state |-> "creating", user |-> u, bus |-> b]]
               /\ UNCHANGED pickupReply
          ELSE /\ pickupReply' = r.reply
               /\ UNCHANGED calls
    /\ sent' = NoSent
    /\ pubs' = << >>
    /\ actor' = u
    /\ UNCHANGED <<bus, driver, driverProfiles, busRows, loc, groups, pubLog, watchVars, accepted,
                   chatVars, routestops, searchVars, pickups>>

\* worker w runs the rest of its request
SendPickupCreate(w) ==
    /\ calls[w].state = "creating"
    /\ LET r == CreateResult(calls[w].user, calls[w].bus)
       IN /\ pickups' = r.pickups
          /\ pubs' = r.pubs
          /\ pickupReply' = r.reply
    /\ calls' = [calls EXCEPT ![w] = Idle]
    /\ sent' = NoSent
    /\ actor' = calls[w].user
    /\ UNCHANGED <<bus, driver, driverProfiles, busRows, loc, groups, pubLog, watchVars, accepted,
                   chatVars, routestops, searchVars>>

\* cancel_pickup_request by user u for row pickup_id
CancelPickup(u, pickup_id) ==
    /\ pickups' = {IF x.id = pickup_id /\ x.user = u
                   THEN [x EXCEPT !.status = "rejected"] ELSE x : x \in pickups}
    /\ pickupReply' = [status |-> IF \E x \in pickups : x.id = pickup_id /\ x.user = u
                                  THEN "success" ELSE "error",
                       existing_request_id |-> Null, pickup_id |-> Null]
    /\ sent' = NoSent
    /\ pubs' = << >>
    /\ actor' = u
    /\ UNCHANGED <<bus, driver, driverProfiles, busRows, loc, groups, pubLog, watchVars, accepted,
                   chatVars, routestops, searchVars, calls>>

\* (mutant) a handler that marks every row of the table
MarkEveryPickupSeen(pickup_id) ==
    {[x EXCEPT !.seen_by_driver = TRUE] : x \in pickups}

\* _mark_pickup_seen(pickup_id): the rows after it
MarkPickupSeenRows(pickup_id) ==
    {IF x.id = pickup_id THEN [x EXCEPT !.seen_by_driver = TRUE] ELSE x : x \in pickups}

\* a pickup_notification event put on a topic: ChatConsumer.pickup_notification
\* runs in every session joined to it, writes the frame and marks the row
PickupNotificationResult(topic, ev) ==
    [out |-> GroupSend(NoOutput, topic, ev),
     pickups |-> IF Members(topic) # {} /\ Truthy(ev.pickup_id)
                 THEN MarkPickupSeenRows(ev.pickup_id)
                 ELSE pickups]

\* the channel layer hands a pickup_notification for row pickup_id to the
\* sessions on the driver's topic
NotifyDriver(pickup_id, u) ==
    /\ LET r == PickupNotificationResult(DriverTopic(DriverUser),
                                         PickupNotification(pickup_id, u, TheBus))
       IN /\ pickups' = r.pickups
          /\ sent' = r.out.sent
          /\ pubs' = r.out.pubs
    /\ actor' = u
    /\ pickupReply' = NoPickupReply
    /\ UNCHANGED <<bus, driver, driverProfiles, busRows, loc, groups, pubLog, watchVars, accepted,
                   chatVars, routestops, searchVars, calls>>

\* mark_pickup_seen: "ensure driver owns the bus"
OwnsBusOf(u, x) == HasDriverProfile(u) /\ x.bus \in busRows /\ u = DriverUser

\* mark_pickup_seen by user u for row pickup_id
MarkPickupSeen(u, pickup_id) ==
    /\ LET ok == \E x \in pickups : x.id = pickup_id /\ OwnsBusOf(u, x)
       IN /\ pickups' = IF ok THEN MarkPickupSeenRows(pickup_id) ELSE pickups
          /\ pickupReply' = [status |-> IF ok THEN "ok" ELSE "error",
                             existing_request_id |-> Null, pickup_id |-> Null]
    /\ sent' = NoSent
    /\ pubs' = << >>
    /\ actor' = u
    /\ UNCHANGED <<bus, driver, driverProfiles, busRows, loc, groups, pubLog, watchVars, accepted,
                   chatVars, routestops, searchVars, calls>>

\* clear_all_pickups by user u
ClearAllPickups(u) ==
    /\ pickups' = IF HasDriverProfile(u)
                  THEN {IF OwnsBusOf(u, x) THEN [x EXCEPT !.seen_by_driver = TRUE] ELSE x :
                           x \in pickups}
                  ELSE pickups
    /\ pickupReply' = [status |-> IF HasDriverProfile(u) THEN "ok" ELSE "error",
                       existing_request_id |-> Null, pickup_id |-> Null]
    /\ sent' = NoSent
    /\ pubs' = << >>
    /\ actor' = u
    /\ UNCHANGED <<bus, driver, driverProfiles, busRows, loc, groups, pubLog, watchVars, accepted,
                   chatVars, routestops, searchVars, calls>>

\* ------------------------------------------------------------ specification
NoLocation ==
    [route |-> 1, current_lat |-> Null, current_lng |-> Null,
     nearest_stop_index |-> Null, eta_seconds |-> Null,
     eta_smoothed_seconds |-> Null, eta_passed_counter |-> 0]

InitRows ==
    /\ bus = NoLocation
    /\ driver = ClearedDriver
    /\ driverProfiles = {DriverUser}
    /\ busRows = {TheBus}
    /\ loc = [s \in LocChannels |-> ClosedSession]
    /\ groups = {}
    /\ sent = NoSent
    /\ pubs = << >>
    /\ actor = NoUser
    /\ pubLog = [s \in LocChannels |-> << >>]
    /\ tracking = "none"
    /\ saving = [s \in LocChannels |-> NotSaving]
    /\ accepted = [s \in LocChannels |-> 0]
    /\ chat = [c \in ChatChannels |-> ClosedChat]
    /\ messages = << >>
    /\ resolvedBy = "none"
    /\ buses = [r \in Routes |-> NotTracked]
    /\ now = 0
    /\ reply = NoReply
    /\ calls = [w \in Workers |-> Idle]
    /\ pickupReply = NoPickupReply

Init == InitRows /\ routestops = InitialRouteStops /\ pickups = {}

\* lat and lng of an incoming event: numbers, a missing field, or text
Positions == (Lats \X {1}) \cup {<<1, 0>>}
Fixes == Positions \cup {<<Null, 1>>, <<1, Null>>, <<NonNumeric, 1>>}

Next ==
    \/ \E s \in LocChannels, u \in LocUsers, b \in UrlBusIds : LocConnect(s, u, b)
    \/ \E s \in LocChannels : LocReceiveOther(s)
    \/ \E s \in LocChannels, fix \in Fixes : LocReceive(s, fix)
    \/ \E s \in LocChannels : LocDisconnect(s)
    \/ \E u \in LocUsers, fix \in Fixes : UpdateLocation(u, fix)
    \/ \E u \in LocUsers : SwitchRoute(u)

Spec == Init /\ [][Next]_vars

\* frames of the chat socket: one that is not a chat_message, and chat messages
\* with and without content, recipient_id and bus_id (9: no such bus)
ChatFrames ==
    {ChatFrame("ping", "", Null, Null), ChatFrame("chat_message", "hi", Null, 9),
     ChatFrame("chat_message", "hi", 9, Null),
     ChatFrame("chat_message", "", 2, Null), ChatFrame("chat_message", "", Null, TheBus)}
    \cup {ChatFrame("chat_message", "hi", rid, Null) : rid \in {Null} \cup Users}
    \cup {ChatFrame("chat_message", "hi", Null, TheBus)}

\* the chat sockets alone
NextChat ==
    \/ \E c \in ChatChannels, u \in ChatUsers, room \in Rooms : ChatConnect(c, u, room)
    \/ \E c \in ChatChannels : ChatDisconnect(c)
    \/ \E c \in ChatChannels, f \in ChatFrames : ChatReceive(c, f)

SpecChat == Init /\ [][NextChat]_vars

\* connections opening and closing, with group_send failing and a Driver row deleted
NextClose ==
    \/ \E s \in LocChannels, u \in LocUsers, b \in UrlBusIds : LocConnect(s, u, b)
    \/ \E s \in LocChannels : LocDisconnect(s)
    \/ \E s \in LocChannels : LocDisconnectPublishFails(s)
    \/ \E c \in ChatChannels, u \in ChatUsers, room \in Rooms : ChatConnect(c, u, room)
    \/ \E c \in ChatChannels : ChatDisconnect(c)
    \/ AdminDeleteDriver

SpecClose == Init /\ [][NextClose]_vars

\* the admin edits the stops of route 1
NextGraph ==
    \/ \E row \in RouteStopRows : AdminSaveRouteStop(1, row)
    \/ \E stop \in StopIds : AdminDeleteRouteStop(1, stop)

SpecGraph == Init /\ [][NextGraph]_vars

\* the rows of one route: order and distance_to_next_m of stops 1, 2, 3
Layout(o, d) == {RouteStopRow(st, o[st], d[st]) : st \in StopIds}

\* distance_to_next_m of a first leg: unset, negative, and what a bus at 25 km/h
\* needs 1, 2, 9, 10, 29 and 30 minutes for
FirstLegs == {Null, -500, 500, 900, 4000, 4200, 12100, 12500}

\* routes as the admin may have laid them out before the searches start
SearchLayouts ==
    {<<a, b>> :
        a \in {Layout(<<1, 2, 3>>, <<d, Null, Null>>) : d \in FirstLegs}
               \cup {Layout(<<1, 2, 2>>, <<500, Null, Null>>)},
        b \in {Layout(<<3, 2, 1>>, <<Null, Null, Null>>),
               Layout(<<1, 2, 3>>, <<500, Null, Null>>)}}

InitSearch == InitRows /\ routestops \in SearchLayouts /\ pickups = {}

\* drivers report and stop, passengers search
NextSearch ==
    \/ \E r \in Routes, pos \in BusPositions : DriverReports(r, pos)
    \/ \E r \in Routes : DriverStops(r)
    \/ \E p, d \in StopIds, show_passed \in BOOLEAN : Homepage(p, d, show_passed)

SpecSearch == InitSearch /\ [][NextSearch]_vars

\* one bus, the clock, the search and the tracking page
NextStale ==
    \/ Tick
    \/ \E pos \in BusPositions : DriverReports(1, pos)
    \/ DriverStops(1)
    \/ \E p, d \in StopIds : Homepage(p, d, TRUE)
    \/ \E p \in StopIds \cup {Null} : TrackBus(1, p)

SpecStale == Init /\ [][NextStale]_vars

\* the PickupRequest table as the views may find it: empty, or with rows of
\* the last hours
ExistingPickups ==
    {{},
     {PickupRow(1, 2, TheBus, "pending", -57)},
     {PickupRow(1, 2, TheBus, "pending", -57), PickupRow(2, 1, TheBus, "pending", -30)},
     {PickupRow(1, 2, TheBus, "pending", -200), PickupRow(2, 2, TheBus, "pending", -58)},
     {PickupRow(1, 2, TheBus, "rejected", -10)}}

InitPickup == InitRows /\ routestops = InitialRouteStops /\ pickups \in ExistingPickups

\* buses a POST may name: the bus, and an id no row has
PostedBusIds == {TheBus, 9}

NextPickup ==
    \/ Tick
    \/ \E w \in Workers, u \in Users, b \in PostedBusIds : SendPickupCheck(w, u, b)
    \/ \E w \in Workers : SendPickupCreate(w)
    \/ \E u \in Users, id \in 1..2 : CancelPickup(u, id)

SpecPickup == InitPickup /\ [][NextPickup]_vars

\* pickup ids an event or a POST may carry: a row's, or none
PickupIds == {1, 2, Null}

NextSeen ==
    \/ \E c \in ChatChannels, u \in ChatUsers, room \in Rooms : ChatConnect(c, u, room)
    \/ \E c \in ChatChannels : ChatDisconnect(c)
    \/ \E id \in PickupIds, u \in Users : NotifyDriver(id, u)
    \/ \E u \in Users, id \in PickupIds : MarkPickupSeen(u, id)
    \/ \E u \in Users : ClearAllPickups(u)

SpecSeen == InitPickup /\ [][NextSeen]_vars

\* the sessions of one bus topic, with the topic watched
NextTopic ==
    \/ \E s \in LocChannels, u \in LocUsers, b \in UrlBusIds : LocConnect(s, u, b)
    \/ \E s \in LocChannels, fix \in Fixes : LocReceiveOnTopic(s, fix)
    \/ \E s \in LocChannels : LocDisconnectOnTopic(s)

SpecTopic == Init /\ [][NextTopic]_vars

\* positions at the stops of route 1
AtStops == {get_stops_list(1)[i] : i \in DOMAIN get_stops_list(1)}

\* location updates saved in two steps, next to disconnects and route switches
NextTwoSaves ==
    \/ \E s \in LocChannels, u \in LocUsers, b \in UrlBusIds : LocConnect(s, u, b)
    \/ \E s \in LocChannels, fix \in AtStops : SaveFirst(s, fix)
    \/ \E s \in LocChannels : SaveSecond(s)
    \/ \E s \in LocChannels : LocDisconnectIdle(s)
    \/ \E u \in LocUsers : SwitchRoute(u)

SpecTwoSaves == Init /\ [][NextTwoSaves]_vars

\* ------------------------------------------------------------------ claims
LiveFields(b) ==
    <<b.current_lat, b.current_lng, b.nearest_stop_index, b.eta_seconds,
      b.eta_smoothed_seconds>>

AllNull == <<Null, Null, Null, Null, Null>>

Disconnected == TrackingStatus("disconnected")

\* the session on channel s belongs to the driver of the bus it watches
DriverSession(s) ==
    loc[s].state = "Active" /\ loc[s].user = DriverUser /\ loc[s].bus_id = TheBus

\* C1: when a location session that is not the bus's driver disconnects, the
\* bus's live fields stay as they are; when the driver's session disconnects
\* they all become null and tracking_status=disconnected is published on the
\* bus's group and reaches every other session still subscribed to it.
C1_DisconnectClearsOnlyForDriver ==
    \A s \in LocChannels : loc[s].state = "Active" =>
        LET r == LocDisconnectResult(s)
            g == BusGroup(loc[s].bus_id)
        IN IF DriverSession(s)
           THEN /\ LiveFields(r.bus) = AllNull
                /\ r.out.pubs = << <<g, Disconnected>> >>
                /\ \A c \in Members(g) \ {s} : r.out.sent[c] = <<Disconnected>>
           ELSE /\ LiveFields(r.bus) = LiveFields(bus)
                /\ r.out.pubs = << >>

\* a driver has just disconnected, and a session still connected was told so
C1_Witness ==
    /\ pubs = << <<BusGroup(TheBus), Disconnected>> >>
    /\ LiveFields(bus) = AllNull
    /\ actor = DriverUser
    /\ \E c \in LocChannels : loc[c].state = "Active" /\ sent[c] = <<Disconnected>>

\* what a session has published after k accepted updates
ExpectedLog(k) ==
    IF k = 0 THEN << >>
    ELSE <<Brief(TrackingStatus("connected"))>>
         \o [i \in 1..k |-> Brief(LocationUpdate(Null, Null, FALSE, i))]

\* C2: within one location session the k-th accepted location event publishes
\* location_update number k (from 1, a rejected event uses no number), and
\* tracking_status=connected is published once, before location_update 1.
C2_SequencePerSession ==
    \A s \in LocChannels : loc[s].state = "Active" =>
        /\ pubLog[s] = ExpectedLog(accepted[s])
        /\ loc[s].sequence_number = accepted[s]

\* a session has had two updates accepted
C2_Witness ==
    \E s \in LocChannels :
        /\ DriverSession(s) /\ accepted[s] = 2
        /\ pubs = << <<BusGroup(TheBus),
                       LocationUpdate(bus.current_lat, bus.current_lng, FALSE, 2)>> >>

HasStoredPosition == bus.current_lat # Null /\ bus.current_lng # Null

\* C3 (as claimed): on a bus with a stored position, a driver's fix less than
\* 25 m from it is rejected (rows, sequence number and groups untouched) and
\* a fix 25 m or more away is accepted and stored.
C3_MinMovementFilter ==
    \A s \in LocChannels : DriverSession(s) /\ HasStoredPosition =>
        \A fix \in Positions :
            LET r == LocReceiveResult(s, fix)
            IN IF HaversineCm(bus.current_lat, bus.current_lng, fix[1], fix[2])
                    < MIN_MOVEMENT_METERS * 100
               THEN /\ r.bus = bus /\ r.driver = driver
                    /\ r.out = NoOutput
                    /\ r.sequence_number = loc[s].sequence_number
               ELSE /\ r.saved
                    /\ r.bus.current_lat = fix[1] /\ r.bus.current_lng = fix[2]

\* C4: a location event on a session that is not the bus driver's changes no
\* Bus or Driver row, publishes nothing and writes nothing back to the sender.
C4_PassengerLocationDiscarded ==
    \A s \in LocChannels : loc[s].state = "Active" /\ ~DriverSession(s) =>
        \A fix \in Fixes :
            LET r == LocReceiveResult(s, fix)
            IN /\ r.bus = bus /\ r.driver = driver
               /\ r.out = NoOutput
               /\ r.sequence_number = loc[s].sequence_number

\* a passenger's handler has run, after its connect, while the bus has a position
C4_Witness ==
    /\ actor = 2 /\ sent = NoSent /\ pubs = << >>
    /\ HasStoredPosition
    /\ \E s \in LocChannels : loc[s].state = "Active" /\ loc[s].user = 2
    /\ \E s \in LocChannels : DriverSession(s)

\* C5 (as claimed): update_location leaves the live fields alone, and the bus
\* has a position only while a driver session for it is connected.
C5_SingleWriterSessionOnly ==
    /\ \A u \in LocUsers, fix \in Fixes :
           LiveFields(UpdateLocationResult(u, fix).bus) = LiveFields(bus)
    /\ (bus.current_lat # Null \/ bus.current_lng # Null) =>
           \E s \in LocChannels : DriverSession(s)

\* C5 (amended): every change of the bus's live fields is made by a handler
\* running for the bus's driver (location session, update_location, switch_route).
C5_OnlyTheDriverWrites ==
    [][LiveFields(bus') # LiveFields(bus) => actor' = DriverUser]_vars

\* the driver has written a position over HTTP with no location session open
C5_Witness ==
    /\ HasStoredPosition /\ actor = DriverUser
    /\ \A s \in LocChannels : loc[s].state = "Closed"

\* C6 (as claimed): a successful switch_route leaves lat/lng, nearest index and
\* both ETAs null, the counter 0 and the route reversed.
C6_SwitchClearsEverything ==
    LET nb == SwitchRouteResult(DriverUser)
    IN /\ LiveFields(nb) = AllNull
       /\ nb.eta_passed_counter = 0
       /\ nb.route = reverse_route(bus.route)

\* C6 (amended): a successful switch_route leaves nearest index and both ETAs
\* null, the counter 0 and the route reversed, and keeps lat/lng as they were.
C6_SwitchResetsTracking ==
    LET nb == SwitchRouteResult(DriverUser)
    IN /\ nb.nearest_stop_index = Null
       /\ nb.eta_seconds = Null /\ nb.eta_smoothed_seconds = Null
       /\ nb.eta_passed_counter = 0
       /\ nb.route = reverse_route(bus.route)
       /\ nb.current_lat = bus.current_lat /\ nb.current_lng = bus.current_lng

\* the route was switched while the bus had a position
C6_Witness ==
    /\ bus.route = 2 /\ HasStoredPosition
    /\ bus.nearest_stop_index = Null /\ actor = DriverUser

\* C8 (as claimed): on connect a passenger is sent the stored position as a
\* historical location_update with sequence -1 whenever there is one, and
\* "waiting" when there is none; a driver is sent nothing.
C8_ReplayOnConnect ==
    \A s \in LocChannels, u \in LocUsers : loc[s].state = "Closed" =>
        LET frames == LocConnectResult(s, u, TheBus).out.sent[s]
        IN IF u = DriverUser THEN frames = << >>
           ELSE IF HasStoredPosition
                THEN /\ frames # << >>
                     /\ frames[1] = LocationUpdate(bus.current_lat,
                                                   bus.current_lng, TRUE, -1)
                ELSE frames = <<TrackingStatus("waiting")>>

\* the group names in a sequence of group_send calls
Topics(ps) == {ps[i][1] : i \in 1..Len(ps)}

\* the events a sequence of group_send calls put on group g
EventsOn(ps, g) == {ps[i][2] : i \in {j \in 1..Len(ps) : ps[j][1] = g}}

IsClosed(c) ==
    IF c \in LocChannels THEN loc[c].state = "Closed" ELSE chat[c].state = "Closed"

\* C7 (as claimed): a closed connection is a member of no group, and the close
\* of a bus's driver session leaves that bus's live fields null.
C7_CloseRunsFullCleanup ==
    /\ \A p \in groups : ~IsClosed(p[2])
    /\ \A s \in LocChannels :
           loc[s].state = "Active" /\ loc[s].is_driver /\ loc[s].bus_id \in busRows =>
               LiveFields(LocDisconnectResult(s).bus) = AllNull

\* a chat session of a user that is not a driver
PassengerChat(c) ==
    chat[c].state = "Open" /\ chat[c].user # NoUser /\ ~IsDriverAccount(chat[c].user)

\* a chat_message with content that names an existing bus and no recipient
BusOnlyFrame(f) ==
    /\ f.type = "chat_message" /\ f.content # ""
    /\ f.recipient_id = Null /\ f.bus_id \in busRows

\* C9: a chat_message with a bus_id and no recipient_id from a non-driver is
\* addressed to the account of the bus's driver and is published on
\* driver_{recipient}, user_{sender} and chat_user_{sender}_driver_{recipient}.
C9_BusOnlyMessageReachesDriver ==
    \A c \in ChatChannels : PassengerChat(c) =>
        \A f \in ChatFrames : BusOnlyFrame(f) =>
            LET r == ChatReceiveResult(c, f)
                s == chat[c].user
                ev == ChatMessage(s, DriverUser, f.content, f.bus_id)
            IN /\ r.recipient = DriverUser
               /\ EventsOn(r.out.pubs, DriverTopic(DriverUser)) = {ev}
               /\ EventsOn(r.out.pubs, UserTopic(s)) = {ev}
               /\ EventsOn(r.out.pubs, LegacyRoom(s, DriverUser)) = {ev}

\* a passenger's bus-only message has been published and the driver's socket got it
C9_Witness ==
    /\ actor = 2 /\ resolvedBy = "bus"
    /\ {DriverTopic(DriverUser), UserTopic(2), LegacyRoom(2, DriverUser)}
           \subseteq Topics(pubs)
    /\ \E c \in ChatChannels :
           /\ chat[c].state = "Open" /\ chat[c].user = DriverUser
           /\ sent[c] = <<ChatMessage(2, DriverUser, "hi", TheBus)>>

\* C10 (as claimed): one chat message goes to at most four topics.
C10_AtMostFourTopics ==
    \A c \in ChatChannels : chat[c].state = "Open" =>
        \A f \in ChatFrames :
            Cardinality(Topics(ChatReceiveResult(c, f).out.pubs)) <= 4

\* C10 (amended): one chat message goes to at most five topics, all of them
\* among user_{r}, chat_user_{r}_driver_{s}, driver_{r}, the sender's own topic
\* and chat_user_{s}_driver_{r}; a driver's message goes to at most four, and a
\* non-driver's message to another user goes to exactly five.
C10_AtMostFiveTopics ==
    \A c \in ChatChannels : chat[c].state = "Open" =>
        \A f \in ChatFrames :
            LET res == ChatReceiveResult(c, f)
                s == chat[c].user
                r == res.recipient
                topics == Topics(res.out.pubs)
            IN /\ Cardinality(topics) <= 5
               /\ r = Null => topics = {}
               /\ r # Null =>
                      /\ topics \subseteq {UserTopic(r), LegacyRoom(r, s), DriverTopic(r),
                                           UserTopic(s), DriverTopic(s), LegacyRoom(s, r)}
                      /\ IsDriverAccount(s) => Cardinality(topics) <= 4
                      /\ ~IsDriverAccount(s) /\ r # s => Cardinality(topics) = 5

\* a passenger's message to the driver has gone to five topics
C10_Witness ==
    /\ actor = 2 /\ Len(pubs) = 5 /\ Cardinality(Topics(pubs)) = 5
    /\ \A i \in 1..Len(pubs) : pubs[i][2].recipient_id = DriverUser

\* the sum of the edge weights along stops_list from position i to position j
RECURSIVE SumOfEdges(_, _, _)
SumOfEdges(stops_list, i, j) ==
    IF i >= j THEN 0
    ELSE EdgeDistance(stops_list[i], stops_list[i + 1]) + SumOfEdges(stops_list, i + 1, j)

\* the edges of a graph, as <<from, to>>
EdgesOf(graph) ==
    {e \in (DOMAIN graph) \X StopIds :
        \E k \in 1..Len(graph[e[1]]) : graph[e[1]][k][1] = e[2]}

EdgeCount(graph, n) == Len(graph[n])

RECURSIVE TotalEdges(_, _)
TotalEdges(graph, nodes) ==
    IF nodes = {} THEN 0
    ELSE LET n == CHOOSE x \in nodes : TRUE
         IN EdgeCount(graph, n) + TotalEdges(graph, nodes \ {n})

\* C11: on the graph of a route, the shortest path from a to b is the sum of
\* the edge weights between them, with the stops from a to b as its path, when
\* a comes before b in route order, and (Infinity, << >>) when b comes before a.
C11_ShortestPathAlongRoute ==
    \A q \in OrderedBy(routestops[1]) :
        LET graph == GetStopGraph(q)
        IN \A i, j \in 1..Len(q) :
               LET res == Dijkstra(graph, q[i].stop, q[j].stop)
               IN /\ i < j => /\ res[1] = SumOfEdges(q, i, j)
                              /\ res[2] = [k \in 1..(j - i + 1) |-> q[i + k - 1].stop]
                  /\ j < i => res = <<Infinity, << >> >>

\* route 1 has three stops, some stored distances and some computed ones
C11_Witness ==
    /\ Cardinality(routestops[1]) = 3
    /\ \E x \in routestops[1] : x.distance_to_next_m = 500
    /\ \E x \in routestops[1] : x.distance_to_next_m = Null /\ x.order = 1
    /\ \E q \in OrderedBy(routestops[1]) :
           Dijkstra(GetStopGraph(q), q[1].stop, q[3].stop)[1] > 500

\* C12: the graph of a route with N stops has one node per stop and N-1 edges,
\* one from each position to the next; no edge leads to a stop of a lower
\* order value or skips a position, also when rows share an order value.
C12_GraphIsForwardPath ==
    \A q \in OrderedBy(routestops[1]) :
        LET graph == GetStopGraph(q)
            N == Cardinality(routestops[1])
        IN /\ DOMAIN graph = {x.stop : x \in routestops[1]}
           /\ Cardinality(DOMAIN graph) = N
           /\ TotalEdges(graph, DOMAIN graph) = (IF N = 0 THEN 0 ELSE N - 1)
           /\ EdgesOf(graph) = {<<q[i].stop, q[i + 1].stop>> : i \in 1..(N - 1)}
           /\ \A x, y \in routestops[1] :
                  <<x.stop, y.stop>> \in EdgesOf(graph) => x.order <= y.order

\* route 1 has three stops, two of them with the same order value
C12_Witness ==
    /\ Cardinality(routestops[1]) = 3
    /\ \E x, y \in routestops[1] : x # y /\ x.order = y.order
    /\ Cardinality(OrderedBy(routestops[1])) = 2

\* what the smoothing rule asks for, from the raw ETA and the stored value
SmoothedFrom(raw, prev) ==
    IF prev = Null THEN raw ELSE (3 * raw + 7 * prev) \div 10

\* the smoothing rule on both paths, for the fix the driver reports now
SmoothingRuleHolds ==
    /\ (3 * 130 + 7 * 100) \div 10 = 109 /\ Ema(130, 100) = 109
    /\ \A fix \in Positions :
           LET http == UpdateLocationResult(DriverUser, fix).bus
           IN /\ UpdateLocationOk(DriverUser, fix) /\ TheBus \in busRows
                  => http.eta_smoothed_seconds =
                         SmoothedFrom(http.eta_seconds, bus.eta_smoothed_seconds)
              /\ \A s \in LocChannels :
                     LET r == LocReceiveResult(s, fix)
                     IN DriverSession(s) /\ r.saved
                            => /\ r.bus.eta_smoothed_seconds =
                                      SmoothedFrom(r.bus.eta_seconds,
                                                   bus.eta_smoothed_seconds)
                               /\ UpdateLocationOk(DriverUser, fix)
                                      => /\ r.bus.eta_seconds = http.eta_seconds
                                         /\ r.bus.eta_smoothed_seconds =
                                                http.eta_smoothed_seconds

\* C14 (as stated): on every accepted location update the smoothed ETA is
\* 0.3*raw + 0.7*previous when a previous value exists and raw when none
\* exists, the first update of a session after its connect being such a case;
\* both paths compute the same value.
C14_FirstUpdateAfterConnectIsRaw ==
    /\ SmoothingRuleHolds
    /\ \A s \in LocChannels : \A fix \in Positions :
           LET r == LocReceiveResult(s, fix)
           IN DriverSession(s) /\ accepted[s] = 0 /\ r.saved
                  => r.bus.eta_smoothed_seconds = r.bus.eta_seconds

\* C14 (amended): on every accepted location update the smoothed ETA is
\* 0.3*raw + 0.7*stored when the bus row holds a smoothed value and raw when
\* it holds none (after a clear or a route switch); previous 100 and raw 130
\* give 109; the websocket path and update_location compute the same value.
C14_SmoothedEta == SmoothingRuleHolds

\* the driver's session has stored an update blended with an earlier value
C14_Witness ==
    /\ \E s \in LocChannels : DriverSession(s) /\ accepted[s] > 0
    /\ pubs # << >>
    /\ bus.eta_smoothed_seconds # Null
    /\ bus.eta_smoothed_seconds # bus.eta_seconds

\* a lat/lng pair with a member missing or one float() raises on
InvalidFixes == {f \in Fixes : f[1] \in {Null, NonNumeric} \/ f[2] \in {Null, NonNumeric}}

\* receive() left everything as it was
Dropped(s, r) ==
    /\ ~r.saved
    /\ r.bus = bus /\ r.driver = driver
    /\ r.out = NoOutput
    /\ r.sequence_number = loc[s].sequence_number

C20_PassedCounterOnSession ==
    \A s \in LocChannels : \A fix \in Positions :
        LET r == LocReceiveResult(s, fix)
            old == bus.nearest_stop_index
            new == r.bus.nearest_stop_index
        IN DriverSession(s) /\ r.saved /\ old # Null
               => r.bus.eta_passed_counter =
                      (IF new > old THEN bus.eta_passed_counter + 1
                       ELSE IF new < old THEN 0
                       ELSE bus.eta_passed_counter)

\* the queries that find route r, with the orders its rows may come in
SearchCases ==
    {c \in [pickup : StopIds, dest : StopIds, route : Routes, ties : AllTieOrders] :
        Matches(c.ties[c.route][1], c.pickup, c.dest)}

\* the bus of route r has a position the search uses
Located(r) ==
    buses[r].current_lat # Null /\ buses[r].current_lng # Null /\ ~IsStale(buses[r])

\* the ETA part of the search, for a case
CaseEta(c) ==
    EtaAndStatus(buses[c.route], c.ties[c.route][1], c.ties[c.route][2],
                 IndexOf(StopIdsOf(c.ties[c.route][1]), c.pickup))

\* the entries of route r in a result list
EntriesOf(info, r) == {info[i] : i \in {k \in 1..Len(info) : info[k].route = r}}

\* C13: an ETA of at most 2 minutes is arriving_soon, 3 to 10 catchable, 11
\* to 30 far; above 30 the entry has no ETA and status no_route; 2, 3, 10, 11,
\* 30 and 31 fall on the sides listed.
C13_EtaClassification ==
    /\ <<Classify(2).status, Classify(3).status, Classify(10).status,
         Classify(11).status, Classify(30).status, Classify(31).status>>
           = <<"arriving_soon", "catchable", "catchable", "far", "far", "no_route">>
    /\ Classify(30).eta = 30 /\ Classify(31).eta = Null
    /\ \A c \in SearchCases :
           LET m == CaseEta(c).minutes
               found == EntriesOf(HomepageResult(c.pickup, c.dest, TRUE, c.ties), c.route)
           IN Located(c.route) /\ m # Null =>
                  \E e \in found :
                      /\ found = {e}
                      /\ m >= 1
                      /\ m <= 2 => e.status = "arriving_soon" /\ e.eta = m
                      /\ (3 <= m /\ m <= 10) => e.status = "catchable" /\ e.eta = m
                      /\ (11 <= m /\ m <= 30) => e.status = "far" /\ e.eta = m
                      /\ m > 30 => e.status = "no_route" /\ e.eta = Null

\* a search has answered with a bus exactly 31 minutes away
C13_Witness ==
    /\ reply.view = "homepage"
    /\ \E i \in 1..Len(reply.buses_info) :
           reply.buses_info[i].status = "no_route" /\ reply.buses_info[i].eta = Null
    /\ \E c \in SearchCases : Located(c.route) /\ CaseEta(c).minutes = 31

\* C15: for a bus whose stored position is null or whose last update is more
\* than 5 minutes old, the homepage search lists it with status no_location
\* and no ETA, and the tracking page computes no ETA for it either.
C15_NoEtaWithoutFreshPosition ==
    \A r \in Routes :
        ~Located(r) =>
            /\ \A c \in SearchCases :
                   c.route = r =>
                       LET found == EntriesOf(HomepageResult(c.pickup, c.dest, TRUE, c.ties), r)
                       IN /\ found # {}
                          /\ \A e \in found : e.status = "no_location" /\ e.eta = Null
            /\ \A p \in StopIds : \A q \in OrderedBy(routestops[r]) :
                   TrackBusEta(r, p, q) = Null

\* the bus of the case is at or before the pickup, at another stop, and the
\* graph has no path of a distance >= 0 from that stop to the pickup
NoUsablePath(c) ==
    LET q1 == c.ties[c.route][1]
        b == buses[c.route]
        nearest == NearestIdx(StopCoords(q1), b.current_lat, b.current_lng) + 1
        along == Dijkstra(GetStopGraph(c.ties[c.route][2]), q1[nearest].stop, c.pickup)[1]
    IN /\ nearest <= IndexOf(StopIdsOf(q1), c.pickup)
       /\ q1[nearest].stop # c.pickup
       /\ (along = Infinity \/ along < 0)

\* C16: when the bus's nearest stop is not the pickup stop and the graph has
\* no usable path from it to the pickup, the search result still lists the
\* bus, with status no_route and no ETA.
C16_NoRouteIsReported ==
    \A c \in SearchCases :
        Located(c.route) /\ NoUsablePath(c) =>
            LET found == EntriesOf(HomepageResult(c.pickup, c.dest, TRUE, c.ties), c.route)
            IN /\ found # {}
               /\ \A e \in found : e.status = "no_route" /\ e.eta = Null

\* entry x may stand before entry y in a result list
MayPrecede(x, y) ==
    LET dx == x.pickup_to_dest_distance
        dy == y.pickup_to_dest_distance
    IN /\ dx = Null => dy = Null
       /\ dx # Null /\ dy # Null => dx <= dy
       /\ dx = dy => /\ x.eta = Null => y.eta = Null
                     /\ x.eta # Null /\ y.eta # Null => x.eta <= y.eta

PendingInWindow(u, b) ==
    {x \in pickups : /\ x.user = u /\ x.bus = b /\ x.status = "pending"
                     /\ now - x.created_at <= 60}

CaseDistanceCm(c) ==
    LET q1 == c.ties[c.route][1]
        b == buses[c.route]
        nearest == NearestIdx(StopCoords(q1), b.current_lat, b.current_lng) + 1
        to_nearest == HaversineCm(b.current_lat, b.current_lng,
                                  StopAt(q1[nearest].stop)[1], StopAt(q1[nearest].stop)[2])
    IN IF q1[nearest].stop = c.pickup THEN to_nearest
       ELSE to_nearest
            + 100 * Dijkstra(GetStopGraph(c.ties[c.route][2]), q1[nearest].stop, c.pickup)[1]

\* max(0, pickupIdx - nearestIdx)
CaseStopsBetween(c) ==
    LET q1 == c.ties[c.route][1]
        b == buses[c.route]
        d == IndexOf(StopIdsOf(q1), c.pickup)
               - (NearestIdx(StopCoords(q1), b.current_lat, b.current_lng) + 1)
    IN IF d < 0 THEN 0 ELSE d

\* distance_km / 25 * 60 + stopsBetween, rounded to the nearest minute
RoundedMinutes(cm, between) ==
    (2 * cm * 60 + 25 * 100000) \div (2 * 25 * 100000) + between

\* C21: for a bus that has not passed the pickup, the ETA of the query in
\* minutes is max(1, round(distance_km / 25 * 60 + stopsBetween)), rounded to
\* the nearest minute before it is classified.
C21_EtaRoundedToNearestMinute ==
    \A c \in SearchCases :
        Located(c.route) /\ CaseEta(c).minutes # Null =>
            CaseEta(c).minutes =
                (IF RoundedMinutes(CaseDistanceCm(c), CaseStopsBetween(c)) < 1 THEN 1
                 ELSE RoundedMinutes(CaseDistanceCm(c), CaseStopsBetween(c)))

\* the sender of the newest Message row addressed to sid; with others_only, of
\* the newest such row that sid did not send
NewestSenderTo(sid, others_only) ==
    LET rows == {i \in 1..Len(messages) :
                     /\ messages[i].recipient = sid
                     /\ others_only => messages[i].sender # sid}
    IN IF rows = {} THEN Null
       ELSE messages[CHOOSE i \in rows : \A j \in rows : j <= i].sender

\* the fixed order of recipient resolution, last being the driver's last contact
ResolutionOrder(s, f, last) ==
    IF f.recipient_id # Null THEN f.recipient_id
    ELSE IF f.bus_id # Null /\ ~IsDriverAccount(s)
         THEN (IF f.bus_id \in busRows THEN DriverUser ELSE Null)
    ELSE IF IsDriverAccount(s) THEN last
    ELSE Null

\* the chat_message frames with content: those of ChatFrames and those that
\* name both a recipient and a bus
ResolvedFrames ==
    {f \in ChatFrames : f.type = "chat_message" /\ f.content # ""}
    \cup {ChatFrame("chat_message", "hi", rid, b) : rid \in Users \cup {9}, b \in {TheBus, 9}}

\* C22 (as claimed): the recipient of a chat_message is the explicit
\* recipient_id; else, for a non-driver sender with a bus_id, the bus's driver;
\* else, for a driver sender, the sender of the most recent message ever
\* addressed to that driver.
C22_ResolutionOrderAsClaimed ==
    \A c \in ChatChannels : chat[c].state = "Open" /\ chat[c].user # NoUser =>
        \A f \in ResolvedFrames :
            ChatReceiveResult(c, f).recipient =
                ResolutionOrder(chat[c].user, f, NewestSenderTo(chat[c].user, FALSE))

\* C22 (amended): the same order, the last step being the sender of the most
\* recent message addressed to that driver by a user other than the driver; a
\* driver sender is never resolved through bus_id.
C22_ResolutionOrder ==
    \A c \in ChatChannels : chat[c].state = "Open" /\ chat[c].user # NoUser =>
        \A f \in ResolvedFrames :
            /\ ChatReceiveResult(c, f).recipient =
                   ResolutionOrder(chat[c].user, f, NewestSenderTo(chat[c].user, TRUE))
            /\ IsDriverAccount(chat[c].user) => ChatReceiveResult(c, f).by # "bus"

\* the driver's message without a recipient went to the passenger who wrote last
C22_Witness ==
    /\ actor = DriverUser /\ resolvedBy = "last_contact"
    /\ Len(messages) = 2
    /\ messages[1].sender = 2 /\ messages[1].recipient = DriverUser
    /\ messages[2].sender = DriverUser /\ messages[2].recipient = 2
    /\ UserTopic(2) \in Topics(pubs)

\* the chat_message frames, with and without content, recipient and bus
DroppableFrames ==
    ChatFrames
    \cup {ChatFrame("chat_message", content, rid, b) :
             content \in {"", "hi"}, rid \in {Null, 9} \cup Users, b \in {Null, TheBus, 9}}

\* C23: a chat_message for which no recipient resolves, whose content is
\* empty, or which comes from an unauthenticated connection is dropped: no
\* Message row is stored and nothing is published or sent.
C23_UnresolvedOrEmptyDropped ==
    \A c \in ChatChannels : chat[c].state = "Open" =>
        \A f \in DroppableFrames :
            LET s == chat[c].user
                res == ChatReceiveResult(c, f)
            IN f.type = "chat_message"
               /\ (\/ s = NoUser
                   \/ f.content = ""
                   \/ ResolutionOrder(s, f, NewestSenderTo(s, TRUE)) = Null)
               => /\ res.messages = messages
                  /\ res.out = NoOutput

\* with a row stored and a passenger and an anonymous socket open, a frame was
\* dropped: nothing on any socket or topic, the row still the only one
C23_Witness ==
    /\ resolvedBy = "dropped"
    /\ pubs = << >> /\ sent = NoSent
    /\ Len(messages) = 1
    /\ \E c \in ChatChannels : chat[c].state = "Open" /\ chat[c].user = NoUser
    /\ \E c \in ChatChannels : PassengerChat(c)

\* C24 (as claimed): whatever receive publishes has been stored first: a frame
\* that leads to a publish leaves one more Message row, from the sender to the
\* resolved recipient, for every recipient id (ids of no user included).
C24_PersistedBeforePublished ==
    \A c \in ChatChannels : chat[c].state = "Open" =>
        \A f \in DroppableFrames :
            LET res == ChatReceiveResult(c, f)
            IN res.out.pubs # << >> =>
                   /\ Len(res.messages) = Len(messages) + 1
                   /\ res.messages[Len(res.messages)].sender = chat[c].user
                   /\ res.messages[Len(res.messages)].recipient = res.recipient

\* C29 (as claimed): the fan-out of one chat message writes at most one copy
\* to each chat connection, whatever topics the connection joined at connect.
C29_AtMostOneCopy ==
    \A c \in ChatChannels : chat[c].state = "Open" =>
        \A f \in DroppableFrames : \A k \in ChatChannels :
            Len(ChatReceiveResult(c, f).out.sent[k]) <= 1

\* the step put a pickup_notification for row id on the driver's topic while a
\* session was joined to it
DeliveredToSession(id) ==
    /\ Members(DriverTopic(DriverUser)) # {}
    /\ \E i \in 1..Len(pubs') :
           /\ pubs'[i][1] = DriverTopic(DriverUser)
           /\ pubs'[i][2].type = "pickup_notification"
           /\ pubs'[i][2].pickup_id = id

\* the step was a mark_pickup_seen or clear_all_pickups of the owning driver
MarkedByOwner ==
    /\ actor' = DriverUser /\ HasDriverProfile(DriverUser)
    /\ pubs' = << >> /\ pickupReply'.status = "ok"

\* C25: a pickup_notification delivered to a driver's chat session sets
\* seen_by_driver of the row it names; a row's flag goes from false to true
\* only by such a delivery or by the owning driver's explicit marking, so a
\* notification published with no session joined leaves it false, and a
\* delivery sets no other row's flag.
C25_SeenByDeliveryOrOwnerOnly ==
    [][\A x \in pickups : \A y \in pickups' : y.id = x.id =>
           /\ DeliveredToSession(x.id) => y.seen_by_driver
           /\ ~x.seen_by_driver /\ y.seen_by_driver =>
                  DeliveredToSession(x.id) \/ MarkedByOwner]_vars

\* the driver's session got the notification for row 1: row 1 is seen, row 2 not
C25_Witness ==
    /\ \E c \in ChatChannels :
           /\ chat[c].state = "Open" /\ chat[c].user = DriverUser
           /\ Len(sent[c]) = 1 /\ sent[c][1].type = "pickup_notification"
           /\ sent[c][1].pickup_id = 1
    /\ \E x \in pickups : x.id = 1 /\ x.seen_by_driver
    /\ \E x \in pickups : x.id = 2 /\ ~x.seen_by_driver

\* the position a row holds
PositionOf(row) == <<row.current_lat, row.current_lng>>

\* C26: the Driver row mirrors the Bus row: the two positions are equal in
\* every state; an accepted location update leaves both at the new position,
\* a rejected one changes neither row, and a clear leaves both null.
C26_DriverMirrorsBus ==
    /\ PositionOf(driver) = PositionOf(bus)
    /\ \A s \in LocChannels : loc[s].state = "Active" =>
           /\ \A fix \in Fixes :
                  LET r == LocReceiveResult(s, fix)
                  IN IF r.saved
                     THEN PositionOf(r.driver) = fix /\ PositionOf(r.bus) = fix
                     ELSE r.driver = driver /\ r.bus = bus
           /\ ClearsOnDisconnect(s) /\ loc[s].bus_id \in busRows =>
                  /\ PositionOf(LocDisconnectResult(s).driver) = <<Null, Null>>
                  /\ PositionOf(LocDisconnectResult(s).bus) = <<Null, Null>>

\* after a route switch and a clear, the driver's session has had an update
\* accepted: both rows hold the position just published
C26_Witness ==
    /\ bus.route = 2
    /\ actor = DriverUser
    /\ bus.current_lat \in Lats /\ PositionOf(driver) = PositionOf(bus)
    /\ Len(pubs) > 0
    /\ pubs[Len(pubs)][2] = LocationUpdate(bus.current_lat, bus.current_lng, FALSE, 1)
    /\ \E s \in LocChannels : DriverSession(s) /\ accepted[s] = 1

\* C27 (as claimed): every edge weight in the stop graph of a route is
\* non-negative, for every value the stored distance-to-next can hold.
C27_EdgeWeightsNonNegative ==
    \A q \in OrderedBy(routestops[1]) :
        LET graph == GetStopGraph(q)
        IN \A id \in DOMAIN graph : \A k \in 1..Len(graph[id]) : graph[id][k][2] >= 0

\* the live location_update events among the group_send calls ps on group g
LiveUpdatesOn(ps, g) ==
    {ev \in EventsOn(ps, g) : ev.type = "location_update" /\ ~ev.is_historical}

\* C28 (as claimed): once tracking_status=disconnected has been published on
\* the bus topic, no live location_update is published on it before a
\* tracking_status=connected: while disconnected is the last status on the
\* topic, the last handler has published no live update there.
C28_NoLiveUpdateWhileDisconnected ==
    tracking = "disconnected" => LiveUpdatesOn(pubs, BusGroup(TheBus)) = {}

\* no location update is between its two saves
NothingInFlight == \A s \in LocChannels : saving[s].state = "idle"

\* C30 (as claimed): with no update in flight, the stored nearest-stop index
\* is null or the index of the stop nearest to the stored position on the
\* bus's current route, and it is null whenever the position is null.
C30_NearestIndexFitsRouteAndPosition ==
    NothingInFlight =>
        /\ bus.current_lat = Null \/ bus.current_lng = Null
               => bus.nearest_stop_index = Null
        /\ bus.nearest_stop_index # Null /\ bus.current_lat # Null
               => bus.nearest_stop_index =
                      NearestIdx(get_stops_list(bus.route), bus.current_lat, bus.current_lng)

====
